---- MODULE Spec2Model ----
(***************************************************************************)
(* A state-machine model of the per-job coordinator JobTracker             *)
(* (src/src/master/job_tracker.cc): the two task pools, the allocation     *)
(* ledger with its indices, time heap and slug FIFOs, the RPC handlers     *)
(* AssignMap/AssignReduce and FinishMap/FinishReduce, Kill, Load and the   *)
(* KeepMonitoring pass.                                                    *)
(*                                                                         *)
(* Granularity.  A handler is a sequence of steps; one step is one region  *)
(* of the handler in which it holds a lock without releasing it, or one    *)
(* call made with no lock held.  Handlers of different threads interleave  *)
(* between steps.  The monitor holds alloc_mu_ over several steps; AllocMu *)
(* Free says when another thread may enter an alloc_mu_ region.            *)
(*                                                                         *)
(* Time.  alloc_time and period are not kept; the comparisons of an age    *)
(* with sleep_time and timeout are choices of the environment, and the     *)
(* time heap hands out the entry that was appended first.                  *)
(***************************************************************************)
EXTENDS Integers, Sequences, FiniteSets, TLC

(***************************************************************************)
(* Bounds of the model.                                                    *)
(***************************************************************************)
MapTotal == 2
ReduceTotal == 1
MaxAlloc == 2
NumThreads == 2
MaxLoads == 1
MaxKills == 1
MaxCountersPerJob == 1
MapRetry == 1
IgnoreBudget == 2
MaxRetry == 2
MaxIgnore == 1
TaskPeriod == 5
MaxPeriod == 125
ReplicaNum == 1
ReplicaBegin == 1
ReplicaBeginPercent == 50
ParallelAttempts == 2
Capacity == 7
MaxCancels == 1
MaxQueries == 1

(***************************************************************************)
(* Program constants.                                                      *)
(***************************************************************************)
LeftPercent == 120
MonitorBudget == 10
DismissFloor == 5
ReduceCapacityFloor == 60
TimeTolerance == 120

\* RPC handler threads of the server
Threads == 1..NumThreads

\* the threads that take the tracker's locks: the monitor thread, 0, and the
\* threads of the server
MonitorThread == 0
LockThreads == {MonitorThread} \cup Threads

\* endpoint "host:port" as <<host, port>>
Endpoints == {<<"h1", 1>>, <<"h2", 1>>}
NoEndpoint == <<"", 0>>

\* cur_node = endpoint.substr(0, endpoint.find(":"))
CurNode(endpoint) == endpoint[1]

kPending == "kPending"
kRunning == "kRunning"
kCompleted == "kCompleted"
kFailed == "kFailed"
kKilled == "kKilled"
TerminalJobStates == {kCompleted, kFailed, kKilled}

kTaskRunning == "kTaskRunning"
kTaskCompleted == "kTaskCompleted"
kTaskFailed == "kTaskFailed"
kTaskKilled == "kTaskKilled"
kTaskCanceled == "kTaskCanceled"
kTaskMoveOutputFailed == "kTaskMoveOutputFailed"
kTaskUnknown == "kTaskUnknown"
TerminalTaskStates == {kTaskCompleted, kTaskFailed, kTaskKilled, kTaskCanceled}
\* the states a FinishTask request carries
ReportStates == {kTaskCompleted, kTaskFailed, kTaskKilled, kTaskCanceled,
                 kTaskMoveOutputFailed, kTaskUnknown}

kResPending == "kResPending"
kResAllocated == "kResAllocated"
kResDone == "kResDone"

kMapOnlyJob == "kMapOnlyJob"
kMapReduceJob == "kMapReduceJob"

\* JobPriority
kVeryHigh == "kVeryHigh"
kHigh == "kHigh"
kNormal == "kNormal"
kLow == "kLow"

\* Status, for the answers the model keeps
kOk == "kOk"
kNoMore == "kNoMore"
kSuspend == "kSuspend"
kGalaxyError == "kGalaxyError"
kWriteFileFail == "kWriteFileFail"
kOpenFileFail == "kOpenFileFail"

Min(a, b) == IF a < b THEN a ELSE b
Max(a, b) == IF a > b THEN a ELSE b

(***************************************************************************)
(* TaskPool (ResourceManager / IdManager).  A pool is a function from the  *)
(* task ids 0..n-1 to [status, attempt, allocated].                        *)
(***************************************************************************)
NoItem == -1

NewPool(n) ==
    [no \in 0..(n - 1) |-> [status |-> kResPending, attempt |-> 0, allocated |-> 0]]

SumOfItem(pool) == Cardinality(DOMAIN pool)

Done(pool) == Cardinality({no \in DOMAIN pool : pool[no].status = kResDone})

IsDone(pool, no) == no \in DOMAIN pool /\ pool[no].status = kResDone

IsAllocated(pool, no) == no \in DOMAIN pool /\ pool[no].status = kResAllocated

\* Next(): the pending item with the smallest no, or NoItem
GetItemNo(pool) ==
    LET pend == {no \in DOMAIN pool : pool[no].status = kResPending}
    IN  IF pend = {} THEN NoItem
        ELSE CHOOSE no \in pend : \A m \in pend : no <= m

\* the pool after handing out no: attempt and allocated count go up by one
HandOut(pool, no) ==
    [pool EXCEPT ![no] = [status |-> kResAllocated,
                          attempt |-> @.attempt + 1,
                          allocated |-> @.allocated + 1]]

\* Take(no): may the pool re-emit no as a speculative duplicate
CanTake(pool, no, allow_duplicates) ==
    /\ allow_duplicates
    /\ IsAllocated(pool, no)

\* Finish(no): TRUE iff this call makes no Done
FinishItemResult(pool, no) == no \in DOMAIN pool /\ pool[no].status # kResDone

FinishItem(pool, no) ==
    IF FinishItemResult(pool, no)
    THEN [pool EXCEPT ![no] = [@ EXCEPT !.status = kResDone, !.allocated = 0]]
    ELSE pool

\* ReturnBack(no): one active handout less; Pending again when none is left
ReturnBackItem(pool, no) ==
    IF IsAllocated(pool, no)
    THEN IF pool[no].allocated - 1 <= 0
         THEN [pool EXCEPT ![no] = [@ EXCEPT !.status = kResPending, !.allocated = 0]]
         ELSE [pool EXCEPT ![no] = [@ EXCEPT !.allocated = @ - 1]]
    ELSE pool

(***************************************************************************)
(* Replay: the pool table rebuilt from the allocation history.             *)
(***************************************************************************)
RECURSIVE ReplayFrom(_, _, _, _)
ReplayFrom(history, table, is_map, i) ==
    IF i > Len(history) THEN table
    ELSE LET it == history[i]
         IN  IF it.resource_no \notin DOMAIN table \/ it.is_map # is_map
             THEN ReplayFrom(history, table, is_map, i + 1)
             ELSE LET cur == [table[it.resource_no] EXCEPT !.attempt = it.attempt]
                      nxt == IF it.state = kTaskRunning
                             THEN IF cur.status # kResDone
                                  THEN [cur EXCEPT !.status = kResAllocated,
                                                   !.allocated = @ + 1]
                                  ELSE cur
                             ELSE IF it.state = kTaskCompleted
                                  THEN [cur EXCEPT !.status = kResDone,
                                                   !.allocated = 0]
                                  ELSE cur
                  IN  ReplayFrom(history,
                                 [table EXCEPT ![it.resource_no] = nxt],
                                 is_map, i + 1)

Replay(history, n, is_map) == ReplayFrom(history, NewPool(n), is_map, 1)

(***************************************************************************)
(* End-game thresholds (BuildEndGameCounters).                             *)
(***************************************************************************)
MapEndGameBegin(sum_of_map) ==
    Min(sum_of_map - ReplicaBegin,
        sum_of_map - (sum_of_map * ReplicaBeginPercent) \div 100)

\* a reduce phase that is pulled up only when every map is Done
ReduceBeginAtEnd(sum_of_map) == sum_of_map

ReduceBegin(sum_of_map) ==
    sum_of_map - (sum_of_map * ReplicaBeginPercent) \div 100

ReduceEndGameBegin(sum_of_reduce) ==
    Max(sum_of_reduce - ReplicaBegin,
        (sum_of_reduce * ReplicaBeginPercent) \div 100)

\* (int) ceil(max(not_done, 5) * left_percent / 100.0)
LeftMinions(not_done) ==
    (Max(not_done, DismissFloor) * LeftPercent + 99) \div 100

(***************************************************************************)
(* State.                                                                  *)
(***************************************************************************)
VARIABLES
    state_,                    \* JobState
    job_descriptor_,           \* the fields of the JobDescriptor the tracker reads
    map_manager_,              \* map TaskPool
    reduce_manager_,           \* reduce TaskPool; the empty pool stands for NULL
    allocation_table_,         \* sequence of AllocateItem
    time_heap_,                \* set of positions of allocation_table_
    map_slug_, reduce_slug_,   \* FIFOs of task ids
    failed_count_,             \* function from 0..size-1 to the count
    failed_nodes_,             \* task id -> set of nodes
    map_killed_, map_failed_, reduce_killed_, reduce_failed_,
    ignore_failure_mappers_, ignore_failure_reducers_,
    ignored_map_failures_, ignored_reduce_failures_,
    counters_,                 \* counter name -> sum
    map_, reduce_,             \* Deployer handles: TRUE when not NULL
    monitor_,                  \* TRUE when not NULL
    monitor_queue_,            \* KeepMonitoring tasks waiting in monitor_: <<map, reduce>> counts
    map_monitoring_, reduce_monitoring_,
    rpc_client_,               \* TRUE when not NULL
    map_dismissed_, reduce_dismissed_,
    th,                        \* RPC handler threads: position and locals
    mon,                       \* the monitor thread: position and locals
    killer,                    \* the thread calling Kill: position
    kills, loads,              \* calls of Kill and Load made so far
    reduce_workers_,           \* a reduce Deployer has launched reduce workers
    crashed,                   \* the process has died on a NULL dereference
    mu_, alloc_mu_,            \* the two mutexes: the set of threads holding each
    lk,                        \* lock view: what is left of each thread's operation
    reports_,                  \* the counter maps the job's tasks may report
    periods_,                  \* the periods, in seconds, the job's tasks may take
    parallel_attempts_         \* FLAGS_parallel_attempts

poolVars == <<map_manager_, reduce_manager_>>
ledgerVars == <<allocation_table_, time_heap_, map_slug_, reduce_slug_>>
failVars == <<failed_count_, failed_nodes_, ignore_failure_mappers_,
              ignore_failure_reducers_, ignored_map_failures_,
              ignored_reduce_failures_>>
statVars == <<map_killed_, map_failed_, reduce_killed_, reduce_failed_>>
handleVars == <<map_, reduce_, monitor_, monitor_queue_, map_monitoring_,
                reduce_monitoring_, rpc_client_>>
dismissVars == <<map_dismissed_, reduce_dismissed_>>
lockVars == <<mu_, alloc_mu_, lk>>
envVars == <<killer, kills, loads, reduce_workers_, crashed, lockVars, reports_, periods_, parallel_attempts_>>

vars == <<state_, job_descriptor_, poolVars, ledgerVars, failVars, statVars,
          counters_, handleVars, dismissVars, th, mon, envVars>>

\* a handler thread: its position, the call's arguments and locals, and two
\* history fields: lost, set when FinishItem returned false to this call, and
\* after_kill, set when the call began after Kill(kKilled) had returned
IdleThread ==
    [pc |-> "idle", is_map |-> TRUE, no |-> NoItem,
     attempt |-> 0, state |-> kTaskRunning, cur |-> 0, finished |-> FALSE,
     end_state |-> kPending, lost |-> FALSE, after_kill |-> FALSE]

IdleMonitor ==
    [pc |-> "idle", map_now |-> TRUE, sample |-> FALSE, need_random_query |-> FALSE,
     timeout |-> 0, sleep_time |-> 0,
     counter |-> 0, top |-> 0, returned_item |-> {}]

NoTasks == [map |-> 0, reduce |-> 0]

\* counters_: the names present and the sum of each
CounterNames == {"records", "bytes", "lines"}
NoCounters == [names |-> {}, sum |-> [k \in CounterNames |-> 0]]
\* a counter map: the names of the map, each with the same value
Counters(names, value) ==
    [names |-> names, sum |-> [k \in CounterNames |-> IF k \in names THEN value ELSE 0]]
\* the counters a report carries when every task counts one record
ReportCounters == Counters({"records"}, 1)
\* the counter maps of a job whose tasks report several counters
CounterReports ==
    {ReportCounters, Counters({"records", "bytes"}, 2), Counters({"lines"}, 1)}

AllNos == 0..(Max(MapTotal, ReduceTotal) - 1)

Zeros(n) == [no \in 0..(n - 1) |-> 0]

\* the constructor's adjustment of reduce_capacity
ScaledReduceCapacity(reduce_total, reduce_capacity) ==
    IF reduce_capacity > reduce_total * 2
    THEN Max(reduce_total * 2, ReduceCapacityFloor)
    ELSE reduce_capacity

\* the JobDescriptor of a submitted job, as the constructor leaves it
Descriptor(job_type, map_total, allow_duplicates) ==
    [job_type |-> job_type,
     map_total |-> map_total,
     reduce_total |-> IF job_type = kMapReduceJob THEN ReduceTotal ELSE 0,
     priority |-> kNormal,
     map_capacity |-> Capacity,
     reduce_capacity |->
         IF job_type = kMapReduceJob
         THEN ScaledReduceCapacity(ReduceTotal, Capacity) ELSE Capacity,
     map_retry |-> MapRetry,
     reduce_retry |-> MapRetry,
     ignore_map_failures |-> IgnoreBudget,
     ignore_reduce_failures |-> IgnoreBudget,
     map_allow_duplicates |-> allow_duplicates,
     reduce_allow_duplicates |-> allow_duplicates]

\* the tracker after the constructor and a successful Start, for a job whose
\* tasks report the counter maps reports and take the periods periods, in a
\* master started with --parallel_attempts=parallel_attempts
StartedWith(desc, reports, periods, parallel_attempts) ==
    /\ reports_ = reports
    /\ periods_ = periods
    /\ parallel_attempts_ = parallel_attempts
    /\ state_ = kPending
    /\ job_descriptor_ = desc
    /\ map_manager_ = NewPool(desc.map_total)
    /\ reduce_manager_ = NewPool(desc.reduce_total)
    /\ allocation_table_ = <<>>
    /\ time_heap_ = {}
    /\ map_slug_ = <<>>
    /\ reduce_slug_ = <<>>
    /\ failed_count_ = Zeros(desc.map_total)
    /\ failed_nodes_ = [no \in AllNos |-> {}]
    /\ map_killed_ = 0 /\ map_failed_ = 0
    /\ reduce_killed_ = 0 /\ reduce_failed_ = 0
    /\ ignore_failure_mappers_ = {} /\ ignore_failure_reducers_ = {}
    /\ ignored_map_failures_ = 0 /\ ignored_reduce_failures_ = 0
    /\ counters_ = NoCounters
    /\ map_ = TRUE /\ reduce_ = FALSE
    /\ monitor_ = TRUE
    /\ monitor_queue_ = NoTasks
    /\ map_monitoring_ = FALSE /\ reduce_monitoring_ = FALSE
    /\ rpc_client_ = TRUE
    /\ map_dismissed_ = {} /\ reduce_dismissed_ = {}
    /\ th = [t \in Threads |-> IdleThread]
    /\ mon = IdleMonitor
    /\ killer = "idle"
    /\ kills = 0 /\ loads = 0
    /\ reduce_workers_ = FALSE
    /\ crashed = FALSE
    /\ mu_ = {} /\ alloc_mu_ = {}
    /\ lk = [t \in LockThreads |-> <<>>]

StartedReporting(desc, reports) ==
    StartedWith(desc, reports, {TaskPeriod}, ParallelAttempts)

Started(desc) == StartedReporting(desc, {ReportCounters})

\* the jobs submitted
Jobs ==
    {Descriptor(job_type, map_total, allow_duplicates) :
        job_type \in {kMapOnlyJob, kMapReduceJob},
        map_total \in 1..MapTotal,
        allow_duplicates \in BOOLEAN}

\* the jobs with every retry bound up to MaxRetry and every ignore-failure
\* budget up to MaxIgnore, the same for both phases
RetryJobs ==
    {[desc EXCEPT !.map_retry = retry, !.reduce_retry = retry,
                  !.ignore_map_failures = budget,
                  !.ignore_reduce_failures = budget] :
        desc \in Jobs, retry \in 1..MaxRetry, budget \in 0..MaxIgnore}

Init == \E desc \in Jobs : Started(desc)

\* the tracker after the constructor, in the hands of the thread that is
\* about to call Start: no pools, no Deployer, no RPC client; monitor_ exists
Constructed(desc) ==
    /\ state_ = kPending
    /\ job_descriptor_ = desc
    /\ map_manager_ = NewPool(0)
    /\ reduce_manager_ = NewPool(0)
    /\ allocation_table_ = <<>>
    /\ time_heap_ = {}
    /\ map_slug_ = <<>>
    /\ reduce_slug_ = <<>>
    /\ failed_count_ = Zeros(0)
    /\ failed_nodes_ = [no \in AllNos |-> {}]
    /\ map_killed_ = 0 /\ map_failed_ = 0
    /\ reduce_killed_ = 0 /\ reduce_failed_ = 0
    /\ ignore_failure_mappers_ = {} /\ ignore_failure_reducers_ = {}
    /\ ignored_map_failures_ = 0 /\ ignored_reduce_failures_ = 0
    /\ counters_ = NoCounters
    /\ map_ = FALSE /\ reduce_ = FALSE
    /\ monitor_ = TRUE
    /\ monitor_queue_ = NoTasks
    /\ map_monitoring_ = FALSE /\ reduce_monitoring_ = FALSE
    /\ rpc_client_ = FALSE
    /\ map_dismissed_ = {} /\ reduce_dismissed_ = {}
    /\ th = [t \in Threads |-> IF t = 1 THEN [IdleThread EXCEPT !.pc = "start"]
                                ELSE IdleThread]
    /\ mon = IdleMonitor
    /\ killer = "idle"
    /\ kills = 0 /\ loads = 0
    /\ reduce_workers_ = FALSE
    /\ crashed = FALSE
    /\ mu_ = {} /\ alloc_mu_ = {}
    /\ lk = [t \in LockThreads |-> <<>>]
    /\ reports_ = {ReportCounters}
    /\ periods_ = {TaskPeriod}
    /\ parallel_attempts_ = ParallelAttempts

InitConstructed == \E desc \in Jobs : Constructed(desc)

(***************************************************************************)
(* Accessors by phase.                                                     *)
(***************************************************************************)
Pool(is_map) == IF is_map THEN map_manager_ ELSE reduce_manager_
Slug(is_map) == IF is_map THEN map_slug_ ELSE reduce_slug_
AllowDuplicates(is_map) ==
    IF is_map THEN job_descriptor_.map_allow_duplicates
    ELSE job_descriptor_.reduce_allow_duplicates
EndGameBegin(is_map) ==
    IF is_map THEN MapEndGameBegin(SumOfItem(map_manager_))
    ELSE ReduceEndGameBegin(SumOfItem(reduce_manager_))
Monitoring(is_map) == IF is_map THEN map_monitoring_ ELSE reduce_monitoring_

SetPool(is_map, pool) ==
    IF is_map THEN map_manager_' = pool /\ UNCHANGED reduce_manager_
    ELSE reduce_manager_' = pool /\ UNCHANGED map_manager_
SetSlug(is_map, slug) ==
    IF is_map THEN map_slug_' = slug /\ UNCHANGED reduce_slug_
    ELSE reduce_slug_' = slug /\ UNCHANGED map_slug_

\* alloc_mu_ is free unless the monitor is inside its scan
AllocMuFree == mon.pc # "scan"
\* the monitor thread is between two passes
MonitorIdle == mon.pc = "idle"

\* map_index_[no][attempt] / reduce_index_[no][attempt]: the entry stored last
IndexEntries(is_map, no) ==
    {i \in 1..Len(allocation_table_) :
        /\ allocation_table_[i].is_map = is_map
        /\ allocation_table_[i].resource_no = no}
Lookup(is_map, no, attempt) ==
    LET hits == {i \in IndexEntries(is_map, no) :
                    allocation_table_[i].attempt = attempt}
    IN  IF hits = {} THEN 0
        ELSE CHOOSE i \in hits : \A j \in hits : j <= i
\* the entries map_index_[no] holds: one per attempt
Indexed(is_map, no) ==
    {i \in IndexEntries(is_map, no) :
        i = Lookup(is_map, no, allocation_table_[i].attempt)}
\* map_index_.size(): the task ids that have an entry
IndexSize(is_map) ==
    Cardinality({allocation_table_[i].resource_no :
                    i \in {j \in 1..Len(allocation_table_) :
                              allocation_table_[j].is_map = is_map}})

\* a call of Kill(kKilled) from outside has run to its end
KillReturned == kills > 0 /\ killer = "idle"

At(t, pc) == ~crashed /\ th[t].pc = pc
\* a request is served by the first handler thread that is free
Serves(t) == At(t, "idle") /\ \A u \in Threads : u < t => th[u].pc # "idle"
Goto(t, pc) == th' = [th EXCEPT ![t].pc = pc]
Return(t) == th' = [th EXCEPT ![t] = IdleThread]

\* handler calls in flight that may still append to the ledger
Assigning == {t \in Threads : th[t].pc \in {"a_run", "a_get", "a_push", "a_slug",
                                             "a_monitor", "a_append"}}
\* the ledger has room for one more handout
Room == Len(allocation_table_) + Cardinality(Assigning) < MaxAlloc

(***************************************************************************)
(* AssignMap / AssignReduce.                                               *)
(***************************************************************************)
NewAllocateItem(endpoint, no, attempt, is_map) ==
    [endpoint |-> endpoint, resource_no |-> no, attempt |-> attempt,
     is_map |-> is_map, state |-> kTaskRunning]

\* the slug without its leading ids that are not Allocated in the pool
RECURSIVE DrainSlug(_, _)
DrainSlug(slug, pool) ==
    IF slug # <<>> /\ ~IsAllocated(pool, Head(slug))
    THEN DrainSlug(Tail(slug), pool)
    ELSE slug

\* a worker asks for a task; the handler reads state_.  The worker's endpoint
\* enters the model where the handler first uses it (AssignDismiss,
\* AssignAppend).
AssignCall(t, is_map) ==
    /\ Serves(t)
    /\ Room
    /\ is_map \/ reduce_workers_
    /\ th' = [th EXCEPT ![t] = [IdleThread EXCEPT
                !.pc = IF state_ = kPending THEN "a_run" ELSE "a_get",
                !.is_map = is_map, !.after_kill = KillReturned]]
    /\ UNCHANGED <<state_, job_descriptor_, poolVars, ledgerVars, failVars,
                   statVars, counters_, handleVars, dismissVars, mon, envVars>>

IsMapCall(t) == th[t].is_map

\* state_ = kRunning, written without a lock after the read saw kPending
AssignSetRunning(t) ==
    /\ At(t, "a_run")
    /\ state_' = kRunning
    /\ Goto(t, "a_get")
    /\ UNCHANGED <<job_descriptor_, poolVars, ledgerVars, failVars, statVars,
                   counters_, handleVars, dismissVars, mon, envVars>>

\* cur = manager->GetItem()
AssignGetItem(t, is_map) ==
    /\ At(t, "a_get")
    /\ IsMapCall(t) = is_map
    /\ LET no == GetItemNo(Pool(is_map))
       IN  IF no = NoItem
           THEN /\ Goto(t, "a_slug")
                /\ UNCHANGED poolVars
           ELSE /\ SetPool(is_map, HandOut(Pool(is_map), no))
                /\ th' = [th EXCEPT
                      ![t].no = no,
                      ![t].attempt = Pool(is_map)[no].attempt + 1,
                      ![t].pc = IF AllowDuplicates(is_map) /\ no >= EndGameBegin(is_map)
                                THEN "a_push" ELSE "a_monitor"]
    /\ UNCHANGED <<state_, job_descriptor_, ledgerVars, failVars, statVars,
                   counters_, handleVars, dismissVars, mon, envVars>>

RECURSIVE Repeat(_, _)
Repeat(no, n) == IF n <= 0 THEN <<>> ELSE <<no>> \o Repeat(no, n - 1)

\* end game: the id goes into the slug replica_num times
AssignPushReplicas(t, is_map) ==
    /\ At(t, "a_push")
    /\ IsMapCall(t) = is_map
    /\ AllocMuFree
    /\ SetSlug(is_map, Slug(is_map) \o Repeat(th[t].no, ReplicaNum))
    /\ Goto(t, "a_monitor")
    /\ UNCHANGED <<state_, job_descriptor_, poolVars, allocation_table_, time_heap_,
                   failVars, statVars, counters_, handleVars, dismissVars, mon,
                   envVars>>

\* GetItem returned NULL: drain the slug and take a duplicate of its head
AssignFromSlug(t, is_map) ==
    /\ At(t, "a_slug")
    /\ IsMapCall(t) = is_map
    /\ AllocMuFree
    /\ LET slug == DrainSlug(Slug(is_map), Pool(is_map))
       IN  IF slug = <<>>
           THEN /\ SetSlug(is_map, slug)
                /\ Goto(t, "a_dismiss")
                /\ UNCHANGED poolVars
           ELSE /\ SetSlug(is_map, Tail(slug))
                /\ IF CanTake(Pool(is_map), Head(slug), AllowDuplicates(is_map))
                   THEN /\ SetPool(is_map, HandOut(Pool(is_map), Head(slug)))
                        /\ th' = [th EXCEPT
                              ![t].no = Head(slug),
                              ![t].attempt = Pool(is_map)[Head(slug)].attempt + 1,
                              ![t].pc = "a_monitor"]
                   ELSE /\ Goto(t, "a_dismiss")
                        /\ UNCHANGED poolVars
    /\ UNCHANGED <<state_, job_descriptor_, allocation_table_, time_heap_,
                   failVars, statVars, counters_, handleVars, dismissVars, mon,
                   envVars>>

\* CanMapDismiss / CanReduceDismiss: the status, and the dismissed set after
DismissNum(capacity, not_done) == capacity - LeftMinions(not_done)

\* the dismissal with the boundary at one past the number
CanDismissAtBudget(capacity, not_done, dismissed) ==
    capacity > not_done /\ Cardinality(dismissed) <= DismissNum(capacity, not_done)

CanDismiss(capacity, not_done, dismissed) ==
    capacity > not_done /\ Cardinality(dismissed) < DismissNum(capacity, not_done)

\* the status CanMapDismiss / CanReduceDismiss writes for the caller
DismissStatus(is_map) ==
    LET total == IF is_map THEN job_descriptor_.map_total
                 ELSE job_descriptor_.reduce_total
        capacity == IF is_map THEN job_descriptor_.map_capacity
                    ELSE job_descriptor_.reduce_capacity
        not_done == total - Done(Pool(is_map))
        dismissed == IF is_map THEN map_dismissed_ ELSE reduce_dismissed_
    IN  IF CanDismiss(capacity, not_done, dismissed) THEN kNoMore ELSE kSuspend

\* dismissed.insert(endpoint) when the status is kNoMore
Dismiss(is_map, endpoint) ==
    IF DismissStatus(is_map) = kNoMore
    THEN IF is_map
         THEN /\ map_dismissed_' = map_dismissed_ \cup {endpoint}
              /\ UNCHANGED reduce_dismissed_
         ELSE /\ reduce_dismissed_' = reduce_dismissed_ \cup {endpoint}
              /\ UNCHANGED map_dismissed_
    ELSE UNCHANGED dismissVars

AssignDismiss(t, is_map, endpoint) ==
    /\ At(t, "a_dismiss")
    /\ IsMapCall(t) = is_map
    /\ Dismiss(is_map, endpoint)
    /\ Return(t)
    /\ UNCHANGED <<state_, job_descriptor_, poolVars, ledgerVars, failVars,
                   statVars, counters_, handleVars, mon, envVars>>

\* the same region, with the handler left holding the status it is about to
\* return with NULL
AssignDismissAnswer(t, is_map, endpoint) ==
    /\ At(t, "a_dismiss")
    /\ IsMapCall(t) = is_map
    /\ Dismiss(is_map, endpoint)
    /\ Goto(t, DismissStatus(is_map))
    /\ UNCHANGED <<state_, job_descriptor_, poolVars, ledgerVars, failVars,
                   statVars, counters_, handleVars, mon, envVars>>

\* return NULL with *status == kNoMore or kSuspend
AssignReturnAnswer(t) ==
    /\ At(t, kNoMore) \/ At(t, kSuspend)
    /\ Return(t)
    /\ UNCHANGED <<state_, job_descriptor_, poolVars, ledgerVars, failVars,
                   statVars, counters_, handleVars, dismissVars, mon, envVars>>

\* monitor_->AddTask(KeepMonitoring(is_map)) once the end game has begun.
\* With monitor_ NULL the call dereferences NULL: the process dies, or the
\* call is lost.
AssignStartMonitor(t, is_map) ==
    /\ At(t, "a_monitor")
    /\ IsMapCall(t) = is_map
    /\ IF th[t].no >= EndGameBegin(is_map) /\ ~Monitoring(is_map)
       THEN IF monitor_
            THEN /\ monitor_queue_' =
                      IF is_map THEN [monitor_queue_ EXCEPT !.map = @ + 1]
                      ELSE [monitor_queue_ EXCEPT !.reduce = @ + 1]
                 /\ IF is_map
                    THEN map_monitoring_' = TRUE /\ UNCHANGED reduce_monitoring_
                    ELSE reduce_monitoring_' = TRUE /\ UNCHANGED map_monitoring_
                 /\ Goto(t, "a_append")
                 /\ UNCHANGED crashed
            ELSE /\ \E dies \in BOOLEAN :
                      /\ crashed' = dies
                      /\ IF is_map
                         THEN map_monitoring_' = TRUE /\ UNCHANGED reduce_monitoring_
                         ELSE reduce_monitoring_' = TRUE /\ UNCHANGED map_monitoring_
                 /\ Goto(t, "a_append")
                 /\ UNCHANGED monitor_queue_
       ELSE /\ Goto(t, "a_append")
            /\ UNCHANGED <<monitor_queue_, map_monitoring_, reduce_monitoring_, crashed>>
    /\ UNCHANGED <<state_, job_descriptor_, poolVars, ledgerVars, failVars,
                   statVars, counters_, map_, reduce_, monitor_, rpc_client_,
                   dismissVars, mon, killer, kills, loads, lockVars, reports_, periods_, parallel_attempts_,
                   reduce_workers_>>

\* the new AllocateItem goes into the table, the index and the time heap
AssignAppend(t, is_map, endpoint) ==
    /\ At(t, "a_append")
    /\ IsMapCall(t) = is_map
    /\ AllocMuFree
    /\ allocation_table_' = Append(allocation_table_,
            NewAllocateItem(endpoint, th[t].no, th[t].attempt, is_map))
    /\ time_heap_' = time_heap_ \cup {Len(allocation_table_) + 1}
    /\ Return(t)
    /\ UNCHANGED <<state_, job_descriptor_, poolVars, map_slug_, reduce_slug_,
                   failVars, statVars, counters_, handleVars, dismissVars, mon,
                   envVars>>

AssignMapCall(t) == AssignCall(t, TRUE)
AssignMapGetItem(t) == AssignGetItem(t, TRUE)
AssignMapPushReplicas(t) == AssignPushReplicas(t, TRUE)
AssignMapFromSlug(t) == AssignFromSlug(t, TRUE)
AssignMapDismiss(t) == \E endpoint \in Endpoints : AssignDismiss(t, TRUE, endpoint)
AssignMapStartMonitor(t) == AssignStartMonitor(t, TRUE)
AssignMapAppend(t) == \E endpoint \in Endpoints : AssignAppend(t, TRUE, endpoint)

AssignReduceCall(t) == AssignCall(t, FALSE)
AssignReduceGetItem(t) == AssignGetItem(t, FALSE)
AssignReducePushReplicas(t) == AssignPushReplicas(t, FALSE)
AssignReduceFromSlug(t) == AssignFromSlug(t, FALSE)
AssignReduceDismiss(t) == \E endpoint \in Endpoints : AssignDismiss(t, FALSE, endpoint)
AssignReduceStartMonitor(t) == AssignStartMonitor(t, FALSE)
AssignReduceAppend(t) == \E endpoint \in Endpoints : AssignAppend(t, FALSE, endpoint)

AssignMapDismissAnswer(t) ==
    \E endpoint \in Endpoints : AssignDismissAnswer(t, TRUE, endpoint)
AssignReduceDismissAnswer(t) ==
    \E endpoint \in Endpoints : AssignDismissAnswer(t, FALSE, endpoint)

(***************************************************************************)
(* Start.                                                                  *)
(***************************************************************************)
\* BuildResourceManagers: the descriptor after the input is cut into
\* sum_of_map items
Partitioned(desc, sum_of_map) ==
    IF sum_of_map < 1
    THEN [desc EXCEPT !.map_total = sum_of_map, !.reduce_total = 0]
    ELSE [desc EXCEPT !.map_total = sum_of_map]

\* the status BuildResourceManagers returns
BuildResourceManagersStatus(sum_of_map) ==
    IF sum_of_map < 1 THEN kOpenFileFail ELSE kOk

\* the status Start returns
StartStatus(output_exists, sum_of_map, map_ok) ==
    IF output_exists THEN kWriteFileFail
    ELSE IF BuildResourceManagersStatus(sum_of_map) # kOk THEN kNoMore
    ELSE IF map_ok THEN kOk
    ELSE kGalaxyError

\* Start: the output must not exist, the input is cut into sum_of_map items,
\* and the map Deployer is created and started
StartCall(t, output_exists, sum_of_map, map_ok) ==
    /\ At(t, "start")
    /\ IF output_exists
       THEN /\ job_descriptor_' = [job_descriptor_ EXCEPT !.map_total = 0,
                                                          !.reduce_total = 0]
            /\ state_' = kFailed
            /\ UNCHANGED <<poolVars, failed_count_, map_, rpc_client_>>
       ELSE /\ job_descriptor_' = Partitioned(job_descriptor_, sum_of_map)
            /\ map_manager_' = NewPool(sum_of_map)
            /\ IF sum_of_map < 1
               THEN /\ state_' = kFailed
                    /\ UNCHANGED <<reduce_manager_, failed_count_, map_, rpc_client_>>
               ELSE /\ reduce_manager_' =
                          IF job_descriptor_.job_type = kMapReduceJob
                          THEN NewPool(job_descriptor_.reduce_total)
                          ELSE reduce_manager_
                    /\ failed_count_' = Zeros(sum_of_map)
                    /\ rpc_client_' = TRUE
                    /\ map_' = TRUE
                    /\ UNCHANGED state_
    /\ Goto(t, StartStatus(output_exists, sum_of_map, map_ok))
    /\ UNCHANGED <<ledgerVars, failed_nodes_, ignore_failure_mappers_,
                   ignore_failure_reducers_, ignored_map_failures_,
                   ignored_reduce_failures_, statVars, counters_, reduce_,
                   monitor_, monitor_queue_, map_monitoring_, reduce_monitoring_,
                   dismissVars, mon, envVars>>

Start(t) ==
    \E output_exists \in BOOLEAN, sum_of_map \in 0..MapTotal, map_ok \in BOOLEAN :
        StartCall(t, output_exists, sum_of_map, map_ok)

\* return kOk: the job is registered and its workers begin to call
StartReturn(t) ==
    /\ At(t, kOk)
    /\ Return(t)
    /\ UNCHANGED <<state_, job_descriptor_, poolVars, ledgerVars, failVars,
                   statVars, counters_, handleVars, dismissVars, mon, envVars>>

(***************************************************************************)
(* Update.                                                                 *)
(***************************************************************************)
ParsePriority(priority) ==
    IF priority = "kMonitor" THEN kVeryHigh
    ELSE IF priority = "kOnline" THEN kHigh
    ELSE IF priority = "kOffline" THEN kNormal
    ELSE IF priority = "kBestEffort" THEN kLow
    ELSE kNormal

\* the arguments of Update: a priority name or the empty string, and a
\* capacity or -1 for none
UpdatePriorities == {"", "kMonitor"}
UpdateCapacities == {-1, 1, Capacity + 1}

\* the descriptor after the block of one Deployer that accepted the update
Updated(desc, priority, is_map, capacity) ==
    LET sized == IF capacity = -1 THEN desc
                 ELSE IF is_map THEN [desc EXCEPT !.map_capacity = capacity]
                 ELSE [desc EXCEPT !.reduce_capacity = capacity]
    IN  IF priority = "" THEN sized
        ELSE [sized EXCEPT !.priority = ParsePriority(priority)]

\* Update: map_->Update, then reduce_->Update; each Deployer accepts or
\* rejects; the descriptor is written after each Deployer that accepted
UpdateCall(t, priority, map_capacity, reduce_capacity, map_ok, reduce_ok) ==
    /\ Serves(t)
    /\ LET map_rejects == map_ /\ ~map_ok
           after_map == IF map_ /\ map_ok
                        THEN Updated(job_descriptor_, priority, TRUE, map_capacity)
                        ELSE job_descriptor_
           reduce_rejects == ~map_rejects /\ reduce_ /\ ~reduce_ok
           after_reduce == IF ~map_rejects /\ reduce_ /\ reduce_ok
                           THEN Updated(after_map, priority, FALSE, reduce_capacity)
                           ELSE after_map
       IN  /\ job_descriptor_' = after_reduce
           /\ th' = [th EXCEPT ![t] = [IdleThread EXCEPT
                        !.pc = IF map_rejects \/ reduce_rejects
                               THEN kGalaxyError ELSE kOk,
                        !.after_kill = KillReturned]]
    /\ UNCHANGED <<state_, poolVars, ledgerVars, failVars, statVars, counters_,
                   handleVars, dismissVars, mon, envVars>>

Update(t) ==
    \E priority \in UpdatePriorities, map_capacity \in UpdateCapacities,
       reduce_capacity \in UpdateCapacities, map_ok \in BOOLEAN,
       reduce_ok \in BOOLEAN :
        UpdateCall(t, priority, map_capacity, reduce_capacity, map_ok, reduce_ok)

\* return kGalaxyError or kOk
UpdateReturn(t) ==
    /\ At(t, kGalaxyError) \/ At(t, kOk)
    /\ Return(t)
    /\ UNCHANGED <<state_, job_descriptor_, poolVars, ledgerVars, failVars,
                   statVars, counters_, handleVars, dismissVars, mon, envVars>>

(***************************************************************************)
(* AccumulateCounters.                                                     *)
(***************************************************************************)
\* a cap that is never found exceeded
AccumulateCountersAlways(into) == TRUE

\* the report's values stored in place of the sums
AccumulateOverwrite(into, counters) ==
    [names |-> into.names \cup counters.names,
     sum |-> [k \in CounterNames |->
                 IF k \in counters.names THEN counters.sum[k] ELSE into.sum[k]]]

AccumulateCountersResult(into) == ~(Cardinality(into.names) > MaxCountersPerJob)

AccumulateCounters(into, counters) ==
    IF AccumulateCountersResult(into)
    THEN [names |-> into.names \cup counters.names,
          sum |-> [k \in CounterNames |->
                      IF k \in counters.names THEN into.sum[k] + counters.sum[k]
                      ELSE into.sum[k]]]
    ELSE into

(***************************************************************************)
(* Kill: the two regions, for whoever calls it.                            *)
(***************************************************************************)
\* under mu_: the Deployers and the monitor go, state_ = end_state.
\* delete monitor_ joins the monitor thread, so it waits for a pass to end.
KillHandles(end_state) ==
    /\ MonitorIdle
    /\ map_' = FALSE
    /\ reduce_' = FALSE
    /\ monitor_' = FALSE
    /\ monitor_queue_' = IF monitor_ THEN NoTasks ELSE monitor_queue_
    /\ state_' = end_state
    /\ UNCHANGED <<map_monitoring_, reduce_monitoring_, rpc_client_>>

KilledTable(table) ==
    [i \in 1..Len(table) |->
        IF table[i].state = kTaskRunning
        THEN [table[i] EXCEPT !.state = kTaskKilled]
        ELSE table[i]]

RunningCount(table, is_map) ==
    Cardinality({i \in 1..Len(table) :
                    table[i].is_map = is_map /\ table[i].state = kTaskRunning})

\* under alloc_mu_: every Running entry becomes Killed; rpc_client_ goes
KillSweep ==
    /\ AllocMuFree
    /\ allocation_table_' = KilledTable(allocation_table_)
    /\ map_killed_' = map_killed_ + RunningCount(allocation_table_, TRUE)
    /\ reduce_killed_' = reduce_killed_ + RunningCount(allocation_table_, FALSE)
    /\ rpc_client_' = FALSE
    /\ UNCHANGED <<time_heap_, map_slug_, reduce_slug_, map_failed_, reduce_failed_,
                   map_, reduce_, monitor_, monitor_queue_, map_monitoring_,
                   reduce_monitoring_>>

(***************************************************************************)
(* FinishMap / FinishReduce.                                               *)
(***************************************************************************)
\* the (no, attempt) a report can name: an entry of the ledger, or none
ReportTargets(is_map) ==
    {<<allocation_table_[i].resource_no, allocation_table_[i].attempt>> :
        i \in {j \in 1..Len(allocation_table_) : allocation_table_[j].is_map = is_map}}
    \cup {<<0, 0>>}

\* a FinishReduce that answers kSuspend to a Killed report as well
TooEarlyEvenKilled(is_map, state) ==
    /\ ~is_map
    /\ Done(map_manager_) < job_descriptor_.map_total

\* a FinishReduce that never answers kSuspend
NeverTooEarly(is_map, state) == FALSE

\* FinishReduce answers kSuspend while maps are left, unless the report is Killed
ReduceTooEarly(is_map, state) ==
    /\ ~is_map
    /\ Done(map_manager_) < job_descriptor_.map_total
    /\ state # kTaskKilled

\* kTaskMoveOutputFailed is Failed for an id not Done, Canceled for one Done
Remapped(pool, no, state) ==
    IF state = kTaskMoveOutputFailed
    THEN IF ~IsDone(pool, no) THEN kTaskFailed ELSE kTaskCanceled
    ELSE state

\* the lookup under alloc_mu_: only a Running entry is accepted
FinishCall(t, is_map, no, attempt, state) ==
    /\ Serves(t)
    /\ AllocMuFree
    /\ ~ReduceTooEarly(is_map, state)
    /\ LET cur == Lookup(is_map, no, attempt)
       IN  /\ cur # 0
           /\ allocation_table_[cur].state = kTaskRunning
           /\ th' = [th EXCEPT ![t] = [IdleThread EXCEPT
                        !.pc = "f_main", !.is_map = is_map, !.no = no,
                        !.attempt = attempt, !.cur = cur,
                        !.after_kill = KillReturned,
                        !.state = Remapped(Pool(is_map), no, state)]]
    /\ UNCHANGED <<state_, job_descriptor_, poolVars, ledgerVars, failVars,
                   statVars, counters_, handleVars, dismissVars, mon, envVars>>

\* FinishReduce reads Done() of the map pool with no lock held and finds the
\* report too early: the handler is about to return kSuspend
FinishSuspend(t, is_map, state) ==
    /\ Serves(t)
    /\ ReduceTooEarly(is_map, state)
    /\ th' = [th EXCEPT ![t] = [IdleThread EXCEPT
                 !.pc = "f_suspend", !.is_map = is_map, !.state = state,
                 !.after_kill = KillReturned]]
    /\ UNCHANGED <<state_, job_descriptor_, poolVars, ledgerVars, failVars,
                   statVars, counters_, handleVars, dismissVars, mon, envVars>>

\* return kSuspend
FinishReturnSuspend(t) ==
    /\ At(t, "f_suspend")
    /\ Return(t)
    /\ UNCHANGED <<state_, job_descriptor_, poolVars, ledgerVars, failVars,
                   statVars, counters_, handleVars, dismissVars, mon, envVars>>

\* a report that is turned away with kNoMore, for a missing or not Running
\* entry.  Nothing changes.
Rejected(is_map, no, attempt, state) ==
    IF ReduceTooEarly(is_map, state) THEN FALSE
    ELSE /\ AllocMuFree
         /\ LET cur == Lookup(is_map, no, attempt)
            IN  IF cur = 0 THEN TRUE
                ELSE allocation_table_[cur].state # kTaskRunning

FinishRejected(t, is_map) ==
    /\ Serves(t)
    /\ {r \in ReportTargets(is_map) \X ReportStates :
            Rejected(is_map, r[1][1], r[1][2], r[2])} # {}
    /\ UNCHANGED vars

IgnoreSet(is_map) ==
    IF is_map THEN ignore_failure_mappers_ ELSE ignore_failure_reducers_

\* reduce_begin_ stays 0 without a reduce manager
reduce_begin_ ==
    IF DOMAIN reduce_manager_ # {} THEN ReduceBegin(SumOfItem(map_manager_)) ELSE 0

\* a count that goes up on every failure, whatever the node
FailedCountAlways(no, node) ==
    IF no \in DOMAIN failed_count_
    THEN [failed_count_ EXCEPT ![no] = @ + 1]
    ELSE failed_count_

\* failed_count_[no] and failed_nodes_[no] after a failure of no on node.
\* An id beyond the vector's size is written outside it: the vector stays.
FailedCountAfter(no, node) ==
    IF no \in DOMAIN failed_count_ /\ node \notin failed_nodes_[no]
    THEN [failed_count_ EXCEPT ![no] = @ + 1]
    ELSE failed_count_

FailedNodesAfter(no, node) == [failed_nodes_ EXCEPT ![no] = @ \cup {node}]

\* a retry bound that the first failure reaches
RetryReachedAtOnce(count, no, retry, any) ==
    IF no \in DOMAIN count THEN count[no] >= 1 ELSE any

\* failed_count_[no] >= retry; a read beyond the vector's size yields anything
RetryReached(count, no, retry, any) ==
    IF no \in DOMAIN count THEN count[no] >= retry ELSE any

\* the handler goes on at pc with the report's state settled
Move(t, state, pc) == th' = [th EXCEPT ![t].state = state, ![t].pc = pc]
\* the handler goes on to retract the job with end_state
MoveEnd(t, state, end_state) ==
    th' = [th EXCEPT ![t].state = state, ![t].pc = "f_retract",
                     ![t].end_state = end_state]

\* a reclassification that never happens
LostNever(pool, no) == FALSE

\* if (!manager->FinishItem(no)): another attempt completed the id before
Lost(pool, no) == ~FinishItemResult(pool, no)

\* case kTaskCompleted of the switch
SwitchCompleted(t, is_map) ==
    LET no == allocation_table_[th[t].cur].resource_no
        pool == Pool(is_map)
        after == FinishItem(pool, no)
        completed == Done(after)
    IN  IF Lost(pool, no)
        THEN /\ th' = [th EXCEPT ![t].state = kTaskCanceled, ![t].pc = "f_commit",
                                 ![t].lost = TRUE]
             /\ UNCHANGED <<poolVars, counters_, reduce_, reduce_workers_, failVars>>
        ELSE /\ SetPool(is_map, after)
             /\ \E counters \in reports_ :
                   counters_' = AccumulateCounters(counters_, counters)
             /\ IF is_map
                THEN \E started \in BOOLEAN :
                     LET pull_up == completed = reduce_begin_
                                    /\ job_descriptor_.job_type # kMapOnlyJob
                         ends == completed = SumOfItem(after)
                     IN  /\ started \/ pull_up
                         /\ reduce_' = IF pull_up THEN TRUE ELSE reduce_
                         /\ reduce_workers_' =
                                IF pull_up /\ started THEN TRUE ELSE reduce_workers_
                         /\ IF pull_up /\ ~started
                            THEN /\ MoveEnd(t, kTaskCompleted, kFailed)
                                 /\ UNCHANGED failVars
                            ELSE IF ends /\ job_descriptor_.job_type = kMapOnlyJob
                            THEN /\ MoveEnd(t, kTaskCompleted, kCompleted)
                                 /\ UNCHANGED failVars
                            ELSE IF ends
                            THEN /\ failed_count_' = Zeros(SumOfItem(reduce_manager_))
                                 /\ failed_nodes_' = [n \in AllNos |-> {}]
                                 /\ Move(t, kTaskCompleted, "f_purge")
                                 /\ UNCHANGED <<ignore_failure_mappers_,
                                        ignore_failure_reducers_,
                                        ignored_map_failures_,
                                        ignored_reduce_failures_>>
                            ELSE /\ Move(t, kTaskCompleted, "f_commit")
                                 /\ UNCHANGED failVars
                ELSE /\ IF completed = SumOfItem(after)
                        THEN MoveEnd(t, kTaskCompleted, kCompleted)
                        ELSE Move(t, kTaskCompleted, "f_commit")
                     /\ UNCHANGED <<reduce_, reduce_workers_, failVars>>

\* case kTaskFailed of the switch
SwitchFailed(t, is_map) ==
    LET no == allocation_table_[th[t].cur].resource_no
        node == CurNode(allocation_table_[th[t].cur].endpoint)
        retry == IF is_map THEN job_descriptor_.map_retry
                 ELSE job_descriptor_.reduce_retry
        budget == IF is_map THEN job_descriptor_.ignore_map_failures
                  ELSE job_descriptor_.ignore_reduce_failures
        ignored == IF is_map THEN ignored_map_failures_ ELSE ignored_reduce_failures_
        count == FailedCountAfter(no, node)
    IN  /\ SetPool(is_map, ReturnBackItem(Pool(is_map), no))
        /\ failed_count_' = count
        /\ failed_nodes_' = FailedNodesAfter(no, node)
        /\ IF is_map
           THEN map_failed_' = map_failed_ + 1 /\ UNCHANGED reduce_failed_
           ELSE reduce_failed_' = reduce_failed_ + 1 /\ UNCHANGED map_failed_
        /\ UNCHANGED <<map_killed_, reduce_killed_>>
        /\ \E any \in BOOLEAN :
             /\ any \/ no \notin DOMAIN count
             /\ IF RetryReached(count, no, retry, any)
                THEN IF ignored < budget
                     THEN /\ IF is_map
                             THEN /\ ignore_failure_mappers_' =
                                        ignore_failure_mappers_ \cup {no}
                                  /\ ignored_map_failures_' = ignored_map_failures_ + 1
                                  /\ UNCHANGED <<ignore_failure_reducers_,
                                                 ignored_reduce_failures_>>
                             ELSE /\ ignore_failure_reducers_' =
                                        ignore_failure_reducers_ \cup {no}
                                  /\ ignored_reduce_failures_' =
                                        ignored_reduce_failures_ + 1
                                  /\ UNCHANGED <<ignore_failure_mappers_,
                                                 ignored_map_failures_>>
                          /\ Move(t, kTaskFailed, "f_commit")
                     ELSE /\ MoveEnd(t, kTaskFailed, kFailed)
                          /\ UNCHANGED <<ignore_failure_mappers_,
                                 ignore_failure_reducers_, ignored_map_failures_,
                                 ignored_reduce_failures_>>
                ELSE /\ Move(t, kTaskFailed, "f_commit")
                     /\ UNCHANGED <<ignore_failure_mappers_, ignore_failure_reducers_,
                                    ignored_map_failures_, ignored_reduce_failures_>>
        /\ UNCHANGED <<counters_, reduce_, reduce_workers_>>

\* case kTaskKilled of the switch
SwitchKilled(t, is_map) ==
    LET no == allocation_table_[th[t].cur].resource_no
    IN  /\ SetPool(is_map, ReturnBackItem(Pool(is_map), no))
        /\ IF is_map
           THEN map_killed_' = map_killed_ + 1 /\ UNCHANGED reduce_killed_
           ELSE reduce_killed_' = reduce_killed_ + 1 /\ UNCHANGED map_killed_
        /\ Move(t, kTaskKilled, "f_commit")
        /\ UNCHANGED <<map_failed_, reduce_failed_, counters_, reduce_,
                       reduce_workers_, failVars>>

\* a Canceled case that finishes the item in the pool
SwitchCanceledFinishes(t, is_map) ==
    LET no == allocation_table_[th[t].cur].resource_no
    IN  /\ SetPool(is_map, FinishItem(Pool(is_map), no))
        /\ Move(t, kTaskCanceled, "f_commit")
        /\ UNCHANGED <<statVars, counters_, reduce_, reduce_workers_, failVars>>

\* case kTaskCanceled of the switch
SwitchCanceled(t, is_map) ==
    LET no == allocation_table_[th[t].cur].resource_no
    IN  /\ SetPool(is_map, IF ~IsDone(Pool(is_map), no)
                           THEN ReturnBackItem(Pool(is_map), no)
                           ELSE Pool(is_map))
        /\ Move(t, kTaskCanceled, "f_commit")
        /\ UNCHANGED <<statVars, counters_, reduce_, reduce_workers_, failVars>>

\* the switch on the report's state, under mu_; th[t].state is that state
Switch(t, is_map) ==
    /\ IF th[t].state = kTaskCompleted
       THEN SwitchCompleted(t, is_map) /\ UNCHANGED statVars
       ELSE IF th[t].state = kTaskFailed THEN SwitchFailed(t, is_map)
       ELSE IF th[t].state = kTaskKilled THEN SwitchKilled(t, is_map)
       ELSE IF th[t].state = kTaskCanceled THEN SwitchCanceled(t, is_map)
       ELSE /\ Return(t)
            /\ UNCHANGED <<poolVars, statVars, counters_, reduce_,
                           reduce_workers_, failVars>>
    /\ UNCHANGED <<state_, job_descriptor_, ledgerVars, map_, monitor_,
                   monitor_queue_, map_monitoring_, reduce_monitoring_,
                   rpc_client_, dismissVars, mon, killer, kills, loads, lockVars, reports_, periods_, parallel_attempts_, crashed>>

\* a conversion that never happens
FakeCompletedNever(t, is_map) == FALSE

\* a Failed report of an id in the ignore-failure set is made Completed
FakeCompleted(t, is_map) ==
    /\ th[t].state = kTaskFailed
    /\ allocation_table_[th[t].cur].resource_no \in IgnoreSet(is_map)

\* does the fake completion write the empty sort file
WritesSortFile(t, is_map) ==
    /\ FakeCompleted(t, is_map)
    /\ is_map
    /\ job_descriptor_.job_type # kMapOnlyJob

\* the mu_ region from the lock to the end of the switch, when no sort file
\* is written (not a fake completion, or SortFileWriter::Create failed)
FinishMain(t, is_map) ==
    /\ At(t, "f_main")
    /\ IsMapCall(t) = is_map
    /\ IF FakeCompleted(t, is_map)
       THEN \E created \in BOOLEAN :
              /\ created => WritesSortFile(t, is_map)
              /\ IF created
                 THEN /\ th' = [th EXCEPT ![t].state = kTaskCompleted,
                                         ![t].pc = "f_write"]
                      /\ UNCHANGED <<state_, job_descriptor_, poolVars, ledgerVars,
                                     failVars, statVars, counters_, handleVars,
                                     dismissVars, mon, envVars>>
                 ELSE /\ SwitchCompleted(t, is_map) /\ UNCHANGED statVars
                      /\ UNCHANGED <<state_, job_descriptor_, ledgerVars, map_,
                                 monitor_, monitor_queue_, map_monitoring_,
                                 reduce_monitoring_, rpc_client_, dismissVars, mon,
                                 killer, kills, loads, lockVars, reports_, periods_, parallel_attempts_, crashed>>
       ELSE Switch(t, is_map)

\* the sort file is written with mu_ released; a failed Close makes the
\* report Failed again; then mu_ is taken and the switch runs
FinishWrite(t, ok) ==
    /\ At(t, "f_write")
    /\ IF ok
       THEN SwitchCompleted(t, TRUE) /\ UNCHANGED statVars
       ELSE SwitchFailed(t, TRUE)
    /\ UNCHANGED <<state_, job_descriptor_, ledgerVars, map_, monitor_,
                   monitor_queue_, map_monitoring_, reduce_monitoring_,
                   rpc_client_, dismissVars, mon, killer, kills, loads, lockVars, reports_, periods_, parallel_attempts_, crashed>>

\* master_->RetractJob with mu_ released, the host leaving the tracker alone;
\* then, under mu_ again, finished = true and state_ = end state
FinishRetractJob(t) ==
    /\ At(t, "f_retract")
    /\ state_' = th[t].end_state
    /\ th' = [th EXCEPT ![t].finished = TRUE, ![t].pc = "f_commit"]
    /\ UNCHANGED <<job_descriptor_, poolVars, ledgerVars, failVars, statVars,
                   counters_, handleVars, dismissVars, mon, envVars>>

\* master_->RetractJob with mu_ released, the host calling Kill(end state) on
\* the tracker: the region of Kill under mu_
FinishRetractKill(t) ==
    /\ At(t, "f_retract")
    /\ KillHandles(th[t].end_state)
    /\ Goto(t, "f_retract_sweep")
    /\ UNCHANGED <<job_descriptor_, poolVars, ledgerVars, failVars, statVars,
                   counters_, dismissVars, mon, envVars>>

\* ... the region of Kill under alloc_mu_; then the handler goes on as above
FinishRetractSweep(t) ==
    /\ At(t, "f_retract_sweep")
    /\ KillSweep
    /\ state_' = th[t].end_state
    /\ th' = [th EXCEPT ![t].finished = TRUE, ![t].pc = "f_commit"]
    /\ UNCHANGED <<job_descriptor_, poolVars, failVars, counters_, dismissVars,
                   mon, envVars>>

\* the map phase has ended: the map entries leave the time heap
FinishMapPurgeHeap(t) ==
    /\ At(t, "f_purge")
    /\ AllocMuFree
    /\ time_heap_' = {i \in time_heap_ : ~allocation_table_[i].is_map}
    /\ Goto(t, "f_restart")
    /\ UNCHANGED <<state_, job_descriptor_, poolVars, allocation_table_, map_slug_,
                   reduce_slug_, failVars, statVars, counters_, handleVars,
                   dismissVars, mon, envVars>>

\* monitor_->Stop(false) joins the monitor thread; under mu_ a new monitor_
\* replaces it, with a reduce pass queued iff reduce_monitoring_; map_ goes
FinishMapRestartMonitor(t) ==
    /\ At(t, "f_restart")
    /\ MonitorIdle
    /\ monitor_' = TRUE
    /\ monitor_queue_' = [map |-> 0, reduce |-> IF reduce_monitoring_ THEN 1 ELSE 0]
    /\ map_' = FALSE
    /\ Goto(t, "f_commit")
    /\ UNCHANGED <<state_, job_descriptor_, poolVars, ledgerVars, failVars,
                   statVars, counters_, reduce_, map_monitoring_,
                   reduce_monitoring_, rpc_client_, dismissVars, mon, envVars>>

\* the entry takes the report's state; a Killed or Failed id is queued again
FinishCommit(t, is_map) ==
    /\ At(t, "f_commit")
    /\ IsMapCall(t) = is_map
    /\ AllocMuFree
    /\ allocation_table_' =
          [allocation_table_ EXCEPT ![th[t].cur].state = th[t].state]
    /\ SetSlug(is_map,
          IF AllowDuplicates(is_map) /\ th[t].state \in {kTaskKilled, kTaskFailed}
          THEN Append(Slug(is_map), allocation_table_[th[t].cur].resource_no)
          ELSE Slug(is_map))
    /\ IF th[t].state # kTaskCompleted \/ ~AllowDuplicates(is_map)
       THEN Return(t)
       ELSE Goto(t, "f_cancel")
    /\ UNCHANGED <<state_, job_descriptor_, poolVars, time_heap_, failVars,
                   statVars, counters_, handleVars, dismissVars, mon, envVars>>

\* CancelOtherAttempts(index, no, attempt): every other indexed attempt of no
\* becomes Canceled and is sent CancelTask; nothing without rpc_client_
CanceledTable(is_map, no, attempt) ==
    [i \in 1..Len(allocation_table_) |->
        IF i \in Indexed(is_map, no) /\ allocation_table_[i].attempt # attempt
        THEN [allocation_table_[i] EXCEPT !.state = kTaskCanceled]
        ELSE allocation_table_[i]]

FinishCancelOtherAttempts(t, is_map) ==
    /\ At(t, "f_cancel")
    /\ IsMapCall(t) = is_map
    /\ AllocMuFree
    /\ IF rpc_client_
       THEN allocation_table_' = CanceledTable(is_map, th[t].no, th[t].attempt)
       ELSE UNCHANGED allocation_table_
    /\ IF th[t].finished THEN Goto(t, "f_delete") ELSE Return(t)
    /\ UNCHANGED <<state_, job_descriptor_, poolVars, time_heap_, map_slug_,
                   reduce_slug_, failVars, statVars, counters_, handleVars,
                   dismissVars, mon, killer, kills, loads, lockVars, reports_, periods_, parallel_attempts_, reduce_workers_, crashed>>

\* if (finished) delete rpc_client_
FinishDeleteRpcClient(t) ==
    /\ At(t, "f_delete")
    /\ AllocMuFree
    /\ rpc_client_' = FALSE
    /\ Return(t)
    /\ UNCHANGED <<state_, job_descriptor_, poolVars, ledgerVars, failVars,
                   statVars, counters_, map_, reduce_, monitor_, monitor_queue_,
                   map_monitoring_, reduce_monitoring_, dismissVars, mon, envVars>>

FinishMapCall(t) ==
    \E target \in ReportTargets(TRUE), state \in ReportStates :
        FinishCall(t, TRUE, target[1], target[2], state)
FinishMapRejected(t) == FinishRejected(t, TRUE)
FinishMapMain(t) == FinishMain(t, TRUE)
FinishMapWrite(t) == \E ok \in BOOLEAN : FinishWrite(t, ok)
FinishMapCommit(t) == FinishCommit(t, TRUE)
FinishMapCancelOtherAttempts(t) == FinishCancelOtherAttempts(t, TRUE)

FinishReduceCall(t) ==
    \E target \in ReportTargets(FALSE), state \in ReportStates :
        FinishCall(t, FALSE, target[1], target[2], state)
FinishReduceRejected(t) == FinishRejected(t, FALSE)
FinishReduceSuspend(t) == \E state \in ReportStates : FinishSuspend(t, FALSE, state)
FinishReduceMain(t) == FinishMain(t, FALSE)
FinishReduceCommit(t) == FinishCommit(t, FALSE)
FinishReduceCancelOtherAttempts(t) == FinishCancelOtherAttempts(t, FALSE)

(***************************************************************************)
(* Kill(kKilled), called from outside.                                     *)
(***************************************************************************)
KillCall ==
    /\ ~crashed
    /\ killer = "idle"
    /\ kills < MaxKills
    /\ KillHandles(kKilled)
    /\ killer' = "sweep"
    /\ kills' = kills + 1
    /\ UNCHANGED <<job_descriptor_, poolVars, ledgerVars, failVars, statVars,
                   counters_, dismissVars, th, mon, loads, lockVars, reports_, periods_, parallel_attempts_,
                   reduce_workers_, crashed>>

KillSweepTable ==
    /\ ~crashed
    /\ killer = "sweep"
    /\ KillSweep
    /\ killer' = "idle"
    /\ UNCHANGED <<state_, job_descriptor_, poolVars, failVars, counters_,
                   dismissVars, th, mon, kills, loads, lockVars, reports_, periods_, parallel_attempts_,
                   reduce_workers_, crashed>>

(***************************************************************************)
(* KeepMonitoring(map_now), run by the one thread of monitor_.             *)
(***************************************************************************)
HasCompleted(is_map) ==
    \E i \in 1..Len(allocation_table_) :
        /\ allocation_table_[i].is_map = is_map
        /\ allocation_table_[i].state = kTaskCompleted

Queued(is_map) == IF is_map THEN monitor_queue_.map ELSE monitor_queue_.reduce

\* the ledger entries whose period is sampled
CompletedEntries(is_map) ==
    {i \in 1..Len(allocation_table_) :
        /\ allocation_table_[i].is_map = is_map
        /\ allocation_table_[i].state = kTaskCompleted}

\* time_used[time_used.size() / 2] after the sort, for the periods time_used
\* of a non-empty set of entries: the value at position size / 2, counted
\* from 0, in ascending order
Median(time_used) ==
    LET size == Cardinality(DOMAIN time_used)
        below(v) == Cardinality({i \in DOMAIN time_used : time_used[i] < v})
        upto(v) == Cardinality({i \in DOMAIN time_used : time_used[i] <= v})
    IN  CHOOSE v \in {time_used[i] : i \in DOMAIN time_used} :
            below(v) <= size \div 2 /\ size \div 2 < upto(v)

\* timeout: 0, or the median period and a fifth of it when there is a sample
Timeout(time_used) ==
    IF DOMAIN time_used # {}
    THEN Median(time_used) + Median(time_used) \div 5
    ELSE 0

SleepTime(timeout) == IF TimeTolerance < timeout THEN TimeTolerance ELSE timeout

\* a queued pass starts: it samples the Completed periods and tosses the coin.
\* Without a sample and without the coin it queues itself again and returns.
MonitorStart(map_now, need_random_query) ==
    /\ ~crashed
    /\ monitor_
    /\ MonitorIdle
    /\ Queued(map_now) > 0
    /\ IF ~HasCompleted(map_now) /\ ~need_random_query
       THEN UNCHANGED <<mon, monitor_queue_>>
       ELSE /\ \E time_used \in [CompletedEntries(map_now) -> periods_] :
                  mon' = [pc |-> "scan", map_now |-> map_now,
                       sample |-> HasCompleted(map_now),
                       need_random_query |-> need_random_query,
                       timeout |-> Timeout(time_used),
                       sleep_time |-> SleepTime(Timeout(time_used)),
                       counter |-> MonitorBudget, top |-> 0, returned_item |-> {}]
            /\ monitor_queue_' =
                  IF map_now THEN [monitor_queue_ EXCEPT !.map = @ - 1]
                  ELSE [monitor_queue_ EXCEPT !.reduce = @ - 1]
    /\ UNCHANGED <<state_, job_descriptor_, poolVars, ledgerVars, failVars,
                   statVars, counters_, map_, reduce_, monitor_, map_monitoring_,
                   reduce_monitoring_, rpc_client_, dismissVars, th, envVars>>

\* time_heap_.top(): the entry allocated first
HeapTop == CHOOSE i \in time_heap_ : \A j \in time_heap_ : i <= j

\* the end of a pass: the entries set aside go back into the heap and the
\* pass queues itself again.  The scan ends when the budget is used up, the
\* heap is empty, or the top entry is younger than sleep_time (no entry is
\* when sleep_time is 0).
MonitorEnd ==
    /\ ~crashed
    /\ mon.pc = "scan"
    /\ mon.counter = 0 \/ time_heap_ = {} \/ mon.sleep_time > 0
    /\ time_heap_' = time_heap_ \cup mon.returned_item
    /\ monitor_queue_' =
          IF mon.map_now THEN [monitor_queue_ EXCEPT !.map = @ + 1]
          ELSE [monitor_queue_ EXCEPT !.reduce = @ + 1]
    /\ mon' = IdleMonitor
    /\ UNCHANGED <<state_, job_descriptor_, poolVars, allocation_table_, map_slug_,
                   reduce_slug_, failVars, statVars, counters_, map_, reduce_,
                   monitor_, map_monitoring_, reduce_monitoring_, rpc_client_,
                   dismissVars, th, envVars>>

\* a loop body that neither returns the id to the pool nor queues it
RequeueNothing(top, item_state, counter) ==
    /\ mon' = [mon EXCEPT !.pc = "scan", !.top = 0, !.counter = counter]
    /\ UNCHANGED <<poolVars, map_slug_, reduce_slug_>>

\* the part of the loop body after the query: a Running attempt numbered
\* parallel_attempts - 1 or more is set aside, and requeued only if the slug
\* is not longer than the index; a Killed one goes back to the pool; the id
\* is pushed into the slug
Requeue(top, item_state, counter) ==
    LET is_map == mon.map_now
        no == allocation_table_[top].resource_no
        aside == allocation_table_[top].attempt >= parallel_attempts_ - 1
                 /\ item_state = kTaskRunning
        skip == aside /\ Len(Slug(is_map)) > IndexSize(is_map)
    IN  /\ mon' = [mon EXCEPT !.pc = "scan", !.top = 0,
                     !.counter = IF aside THEN counter + 1 ELSE counter,
                     !.returned_item = IF aside THEN @ \cup {top} ELSE @]
        /\ IF skip
           THEN UNCHANGED <<poolVars, map_slug_, reduce_slug_>>
           ELSE /\ SetPool(is_map,
                      IF item_state = kTaskKilled /\ DOMAIN Pool(is_map) # {}
                      THEN ReturnBackItem(Pool(is_map), no)
                      ELSE Pool(is_map))
                /\ SetSlug(is_map, Append(Slug(is_map), no))

\* one turn of the loop up to the query: pop the top entry; skip it when it
\* is not Running; set it aside when it is of the other phase; query it when
\* duplicates are forbidden, it is younger than timeout, or on a random query
MonitorPop(young) ==
    /\ ~crashed
    /\ mon.pc = "scan"
    /\ mon.counter # 0
    /\ time_heap_ # {}
    /\ young => mon.timeout > 0
    /\ LET top == HeapTop
           item == allocation_table_[top]
           counter == mon.counter - 1
       IN  /\ time_heap_' = time_heap_ \ {top}
           /\ IF item.state # kTaskRunning
              THEN /\ mon' = [mon EXCEPT !.counter = counter + 1]
                   /\ UNCHANGED <<poolVars, map_slug_, reduce_slug_, crashed>>
              ELSE IF item.is_map # mon.map_now
              THEN /\ mon' = [mon EXCEPT !.counter = counter + 1,
                                         !.returned_item = @ \cup {top}]
                   /\ UNCHANGED <<poolVars, map_slug_, reduce_slug_, crashed>>
              ELSE IF ~AllowDuplicates(mon.map_now) \/ young \/ mon.need_random_query
              THEN /\ mon' = [mon EXCEPT !.pc = "query", !.top = top,
                                         !.counter = counter]
                   /\ crashed' = ~rpc_client_
                   /\ UNCHANGED <<poolVars, map_slug_, reduce_slug_>>
              ELSE /\ Requeue(top, item.state, counter)
                   /\ UNCHANGED crashed
    /\ UNCHANGED <<state_, job_descriptor_, allocation_table_, failVars, statVars,
                   counters_, handleVars, dismissVars, th, killer, kills, loads, lockVars, reports_, periods_, parallel_attempts_, reduce_workers_>>

QueryReplies == {"confirmed", "other", "error"}

\* a reply that confirms nothing
QueryConfirmsNever(reply) == FALSE

\* ok && response.job_id() == job_id_ && response.task_id() == resource_no
\* && response.attempt_id() == attempt
QueryConfirms(reply) == reply = "confirmed"

\* what follows the reply to the Query RPC, under alloc_mu_: "confirmed"
\* carries this job, task and attempt, "other" is a reply with other ids,
\* "error" is no reply
AfterQuery(reply) ==
    /\ LET top == mon.top
           item == allocation_table_[top]
           is_map == mon.map_now
           orphan == reply = "other"
                     /\ DOMAIN Pool(is_map) # {}
                     /\ ~IsAllocated(Pool(is_map), item.resource_no)
           killed == [allocation_table_ EXCEPT ![top].state = kTaskKilled]
           bump == IF is_map
                   THEN map_killed_' = map_killed_ + 1 /\ UNCHANGED reduce_killed_
                   ELSE reduce_killed_' = reduce_killed_ + 1 /\ UNCHANGED map_killed_
       IN  IF QueryConfirms(reply)
           THEN /\ mon' = [mon EXCEPT !.pc = "scan", !.top = 0,
                                      !.counter = @ + 1,
                                      !.returned_item = @ \cup {top}]
                /\ UNCHANGED <<allocation_table_, poolVars, map_slug_,
                               reduce_slug_, map_killed_, reduce_killed_>>
           ELSE IF orphan
           THEN /\ mon' = [mon EXCEPT !.pc = "scan", !.top = 0, !.counter = @ + 1]
                /\ IF item.state = kTaskRunning
                   THEN allocation_table_' = killed /\ bump
                   ELSE UNCHANGED <<allocation_table_, map_killed_, reduce_killed_>>
                /\ UNCHANGED <<poolVars, map_slug_, reduce_slug_>>
           ELSE /\ allocation_table_' = killed
                /\ bump
                /\ Requeue(top, kTaskKilled, mon.counter)
    /\ UNCHANGED <<state_, job_descriptor_, time_heap_, failVars, map_failed_,
                   reduce_failed_, counters_, handleVars, dismissVars, th,
                   envVars>>

\* the Query RPC, sent with alloc_mu_ released, and what follows its reply
MonitorQuery(reply) ==
    /\ ~crashed
    /\ mon.pc = "query"
    /\ AfterQuery(reply)

\* the reply to the Query RPC arrives, alloc_mu_ still released
MonitorReply(reply) ==
    /\ ~crashed
    /\ mon.pc = "query"
    /\ mon' = [mon EXCEPT !.pc = reply]
    /\ UNCHANGED <<state_, job_descriptor_, poolVars, ledgerVars, failVars,
                   statVars, counters_, handleVars, dismissVars, th, envVars>>

\* ... and the monitor takes alloc_mu_ again and acts on it
MonitorReplied ==
    /\ ~crashed
    /\ mon.pc \in QueryReplies
    /\ AfterQuery(mon.pc)

(***************************************************************************)
(* Load: a fresh tracker takes over from the dump (job state, allocation   *)
(* history) of this one.                                                   *)
(***************************************************************************)
StateCount(table, is_map, state) ==
    Cardinality({i \in 1..Len(table) :
                    table[i].is_map = is_map /\ table[i].state = state})

Load ==
    /\ loads < MaxLoads
    /\ AllocMuFree
    /\ LET data == allocation_table_
           maps == Replay(data, job_descriptor_.map_total, TRUE)
           reduces == Replay(data, job_descriptor_.reduce_total, FALSE)
           is_map == ~(Done(maps) = job_descriptor_.map_total)
       IN  /\ map_manager_' = maps
           /\ reduce_manager_' = reduces
           /\ failed_count_' = IF is_map THEN Zeros(job_descriptor_.map_total)
                               ELSE Zeros(job_descriptor_.reduce_total)
           /\ monitor_' = (state_ \in {kRunning, kPending})
           /\ monitor_queue_' =
                 IF state_ # kRunning THEN NoTasks
                 ELSE IF is_map THEN [map |-> 1, reduce |-> 0]
                 ELSE [map |-> 0, reduce |-> 1]
           /\ map_monitoring_' = (state_ = kRunning /\ is_map)
           /\ reduce_monitoring_' = (state_ = kRunning /\ ~is_map)
           /\ rpc_client_' = (state_ \in {kRunning, kPending})
           /\ time_heap_' = {i \in 1..Len(data) : data[i].state = kTaskRunning}
           /\ map_failed_' = StateCount(data, TRUE, kTaskFailed)
           /\ map_killed_' = StateCount(data, TRUE, kTaskKilled)
           /\ reduce_failed_' = StateCount(data, FALSE, kTaskFailed)
           /\ reduce_killed_' = StateCount(data, FALSE, kTaskKilled)
    /\ failed_nodes_' = [no \in AllNos |-> {}]
    /\ ignore_failure_mappers_' = {} /\ ignore_failure_reducers_' = {}
    /\ ignored_map_failures_' = 0 /\ ignored_reduce_failures_' = 0
    /\ counters_' = NoCounters
    /\ map_' = FALSE /\ reduce_' = FALSE
    /\ map_slug_' = <<>> /\ reduce_slug_' = <<>>
    /\ map_dismissed_' = {} /\ reduce_dismissed_' = {}
    /\ th' = [t \in Threads |-> IdleThread]
    /\ mon' = IdleMonitor
    /\ killer' = "idle"
    /\ loads' = loads + 1
    /\ crashed' = FALSE
    /\ UNCHANGED <<state_, job_descriptor_, allocation_table_, kills, lockVars, reports_, periods_, parallel_attempts_,
                   reduce_workers_>>

(***************************************************************************)
(* The lock view.  An operation is the sequence of what it does to mu_ and *)
(* alloc_mu_ and of the RPCs and DFS calls it issues, one sequence for     *)
(* every path through its code.  A thread works its sequence off event by  *)
(* event; Lock waits until the mutex is free.                              *)
(***************************************************************************)
Lock(m) == <<"lock", m>>
Unlock(m) == <<"unlock", m>>
Rpc(name) == <<"rpc", name>>
Dfs(name) == <<"dfs", name>>

\* { MutexLock lock(&m); ... } with no call inside
Region(m) == <<Lock(m), Unlock(m)>>

\* Kill: the scope under mu_, then alloc_mu_ to the end
KillLocks == Region("mu_") \o Region("alloc_mu_")

\* a branch of the code: the thread goes on with one of Alternatives(name)
Branch(name) == <<"branch", name>>

\* the dismissal with CanMapDismiss called inside the alloc_mu_ scope
AssignDismissNested ==
    <<Lock("alloc_mu_"), Lock("mu_"), Unlock("mu_"), Unlock("alloc_mu_")>>

\* AssignMap / AssignReduce with nothing to hand out: alloc_mu_ is given up
\* around CanMapDismiss, which runs under mu_, and taken again for the guard
AssignDismissLocks ==
    <<Lock("alloc_mu_"), Unlock("alloc_mu_"), Lock("mu_"), Unlock("mu_"),
      Lock("alloc_mu_"), Unlock("alloc_mu_")>>

\* AssignMap / AssignReduce: GetItem hit (no lock), or the slug / replica
\* region under alloc_mu_; then the monitor start under mu_ and the append
\* under alloc_mu_
AssignLocks ==
    {Region("mu_") \o Region("alloc_mu_"),
     Region("alloc_mu_") \o Region("mu_") \o Region("alloc_mu_"),
     AssignDismissLocks}

\* master_->RetractJob, called with mu_ released and followed by mu_.Lock():
\* the host leaves the tracker alone, or calls Kill on it
RetractJobLocks == {<<>>, KillLocks}

\* CancelOtherAttempts, after alloc_mu_ is taken: one CancelTask per other
\* attempt, alloc_mu_ held to the return
RECURSIVE Cancels(_)
Cancels(n) == IF n <= 0 THEN <<>> ELSE <<Rpc("CancelTask")>> \o Cancels(n - 1)

CancelOtherAttemptsLocks ==
    {Cancels(n) \o <<Unlock("alloc_mu_"), Branch("finished")>> : n \in 0..MaxCancels}

\* the empty sort file of a fake completion: mu_ released around Open/Close
SortFileLocks == <<Unlock("mu_"), Dfs("Open"), Dfs("Close"), Lock("mu_")>>

\* the end of the mu_ scope, the commit under alloc_mu_, and the tail
FinishCommitLocks == <<Unlock("mu_")>> \o Region("alloc_mu_") \o <<Branch("tail")>>

\* the paths through the switch of FinishMap, inside the mu_ scope
FinishMapSwitchLocks ==
    {\* default: return kNoMore
     <<Unlock("mu_")>>,
     \* no phase change: Failed below the retry bound, Killed, Canceled,
     \* Completed with maps left
     FinishCommitLocks,
     \* reduce_ = new Gru(...); reduce_->Start() succeeds, maps left
     <<Rpc("DeployerCreate")>> \o FinishCommitLocks,
     \* reduce_->Start() fails: RetractJob(kFailed)
     <<Rpc("DeployerCreate"), Unlock("mu_"), Branch("RetractJob"), Lock("mu_")>>
         \o FinishCommitLocks,
     \* map-only job ends: fs_->Remove, RetractJob(kCompleted)
     <<Unlock("mu_"), Dfs("Remove"), Branch("RetractJob"), Lock("mu_")>>
         \o FinishCommitLocks,
     \* map phase ends: the heap purge under alloc_mu_, then mu_ again
     <<Unlock("mu_")>> \o Region("alloc_mu_") \o <<Lock("mu_")>> \o FinishCommitLocks,
     <<Rpc("DeployerCreate"), Unlock("mu_")>> \o Region("alloc_mu_") \o <<Lock("mu_")>>
         \o FinishCommitLocks,
     \* Failed at the retry bound with no ignore budget: RetractJob(kFailed)
     <<Unlock("mu_"), Branch("RetractJob"), Lock("mu_")>> \o FinishCommitLocks}

\* the paths through the switch of FinishReduce, inside the mu_ scope
FinishReduceSwitchLocks ==
    {<<Unlock("mu_")>>,
     FinishCommitLocks,
     \* the job ends: fs_->Remove, RetractJob(kCompleted)
     <<Unlock("mu_"), Dfs("Remove"), Branch("RetractJob"), Lock("mu_")>>
         \o FinishCommitLocks,
     \* Failed at the retry bound: RetractJob(kFailed)
     <<Unlock("mu_"), Branch("RetractJob"), Lock("mu_")>> \o FinishCommitLocks}

\* FinishMap / FinishReduce: the lookup under alloc_mu_, then the rest
FinishMapLocks == Region("alloc_mu_") \o <<Branch("FinishMap")>>
FinishReduceLocks == Region("alloc_mu_") \o <<Branch("FinishReduce")>>

\* Load: alloc_mu_ from the monitor start to the return
LoadLocks == Region("alloc_mu_")

\* Update: the Deployers are called with no lock taken
UpdateLocks ==
    {<<Rpc("DeployerUpdate")>>, <<Rpc("DeployerUpdate"), Rpc("DeployerUpdate")>>}

\* KeepMonitoring: the sample under alloc_mu_; then a rest, or the scan under
\* alloc_mu_, which is released around every Query
RECURSIVE Queries(_)
Queries(n) ==
    IF n <= 0 THEN <<>>
    ELSE <<Unlock("alloc_mu_"), Rpc("Query"), Lock("alloc_mu_")>> \o Queries(n - 1)

KeepMonitoringLocks == Region("alloc_mu_") \o <<Branch("scan")>>

KeepMonitoringScanLocks ==
    {<<>>}
    \cup {<<Lock("alloc_mu_")>> \o Queries(n) \o <<Unlock("alloc_mu_")>> :
            n \in 0..MaxQueries}

\* the ways the code goes on at a branch
Alternatives(name) ==
    CASE name = "FinishMap" ->
           \* cur == NULL: return kNoMore; else the mu_ scope, with or without
           \* the sort file of a fake completion
           {<<>>, <<Lock("mu_"), Branch("FinishMapSwitch")>>,
            <<Lock("mu_")>> \o SortFileLocks \o <<Branch("FinishMapSwitch")>>}
      [] name = "FinishReduce" -> {<<>>, <<Lock("mu_"), Branch("FinishReduceSwitch")>>}
      [] name = "FinishMapSwitch" -> FinishMapSwitchLocks
      [] name = "FinishReduceSwitch" -> FinishReduceSwitchLocks
      [] name = "RetractJob" -> RetractJobLocks
      [] name = "tail" ->
           \* return kOk, or CancelOtherAttempts
           {<<>>, <<Lock("alloc_mu_"), Branch("CancelOtherAttempts")>>}
      [] name = "CancelOtherAttempts" -> CancelOtherAttemptsLocks
      [] name = "finished" ->
           \* if (finished) delete rpc_client_ under alloc_mu_
           {<<>>, Region("alloc_mu_")}
      [] name = "scan" -> KeepMonitoringScanLocks

\* the operations a thread can run
OperationLocks(t) ==
    IF t = MonitorThread THEN {KeepMonitoringLocks}
    ELSE AssignLocks \cup {FinishMapLocks, FinishReduceLocks, KillLocks, LoadLocks}
         \cup UpdateLocks

Holder(m) == IF m = "mu_" THEN mu_ ELSE alloc_mu_
SetHolder(m, h) ==
    IF m = "mu_" THEN mu_' = h /\ UNCHANGED alloc_mu_
    ELSE alloc_mu_' = h /\ UNCHANGED mu_

LockFrame ==
    UNCHANGED <<state_, job_descriptor_, poolVars, ledgerVars, failVars, statVars,
                counters_, handleVars, dismissVars, th, mon, killer, kills, loads,
                reduce_workers_, crashed, reports_, periods_, parallel_attempts_>>

\* thread t begins an operation
Enter(t) ==
    /\ lk[t] = <<>>
    /\ \E path \in OperationLocks(t) : lk' = [lk EXCEPT ![t] = path]
    /\ UNCHANGED <<mu_, alloc_mu_>>
    /\ LockFrame

\* m.Lock(): waits while another thread holds m
Acquire(t) ==
    /\ lk[t] # <<>>
    /\ Head(lk[t])[1] = "lock"
    /\ Holder(Head(lk[t])[2]) = {}
    /\ SetHolder(Head(lk[t])[2], {t})
    /\ lk' = [lk EXCEPT ![t] = Tail(@)]
    /\ LockFrame

\* m.Unlock()
Release(t) ==
    /\ lk[t] # <<>>
    /\ Head(lk[t])[1] = "unlock"
    /\ SetHolder(Head(lk[t])[2], Holder(Head(lk[t])[2]) \ {t})
    /\ lk' = [lk EXCEPT ![t] = Tail(@)]
    /\ LockFrame

\* an RPC or a DFS call is issued
Issue(t) ==
    /\ lk[t] # <<>>
    /\ Head(lk[t])[1] \in {"rpc", "dfs"}
    /\ lk' = [lk EXCEPT ![t] = Tail(@)]
    /\ UNCHANGED <<mu_, alloc_mu_>>
    /\ LockFrame

\* the code takes one of its branches
Choose(t) ==
    /\ lk[t] # <<>>
    /\ Head(lk[t])[1] = "branch"
    /\ \E alt \in Alternatives(Head(lk[t])[2]) :
          lk' = [lk EXCEPT ![t] = alt \o Tail(@)]
    /\ UNCHANGED <<mu_, alloc_mu_>>
    /\ LockFrame

LockStep(t) ==
    \/ Enter(t)
    \/ Choose(t)
    \/ Acquire(t)
    \/ Release(t)
    \/ Issue(t)

NextLocks == \E t \in LockThreads : LockStep(t)

\* the lock view of one job
InitLocks == Started(Descriptor(kMapReduceJob, MapTotal, TRUE))

SpecLocks == InitLocks /\ [][NextLocks]_vars

(***************************************************************************)
(* The specification.                                                      *)
(***************************************************************************)
HandlerStep(t) ==
    \/ AssignMapCall(t)
    \/ AssignSetRunning(t)
    \/ AssignMapGetItem(t)
    \/ AssignMapPushReplicas(t)
    \/ AssignMapFromSlug(t)
    \/ AssignMapDismiss(t)
    \/ AssignMapStartMonitor(t)
    \/ AssignMapAppend(t)
    \/ AssignReduceCall(t)
    \/ AssignReduceGetItem(t)
    \/ AssignReducePushReplicas(t)
    \/ AssignReduceFromSlug(t)
    \/ AssignReduceDismiss(t)
    \/ AssignReduceStartMonitor(t)
    \/ AssignReduceAppend(t)
    \/ FinishMapCall(t)
    \/ FinishMapRejected(t)
    \/ FinishMapMain(t)
    \/ FinishMapWrite(t)
    \/ FinishMapPurgeHeap(t)
    \/ FinishMapRestartMonitor(t)
    \/ FinishMapCommit(t)
    \/ FinishMapCancelOtherAttempts(t)
    \/ FinishReduceCall(t)
    \/ FinishReduceRejected(t)
    \/ FinishReduceMain(t)
    \/ FinishReduceCommit(t)
    \/ FinishReduceCancelOtherAttempts(t)
    \/ FinishRetractJob(t)
    \/ FinishRetractKill(t)
    \/ FinishRetractSweep(t)
    \/ FinishDeleteRpcClient(t)

MonitorStep ==
    \/ \E map_now \in BOOLEAN, need_random_query \in BOOLEAN :
         MonitorStart(map_now, need_random_query)
    \/ \E young \in BOOLEAN : MonitorPop(young)
    \/ \E reply \in QueryReplies : MonitorQuery(reply)
    \/ MonitorEnd

\* one RPC handler thread, the monitor thread, a caller of Kill, and Load
Next ==
    \/ HandlerStep(1)
    \/ MonitorStep
    \/ KillCall
    \/ KillSweepTable

Spec == Init /\ [][Next]_vars

\* a map-only job
InitMapOnly == \E desc \in Jobs : desc.job_type = kMapOnlyJob /\ Started(desc)

MapOnlyStep(t) ==
    \/ AssignMapCall(t)
    \/ AssignSetRunning(t)
    \/ AssignMapGetItem(t)
    \/ AssignMapPushReplicas(t)
    \/ AssignMapFromSlug(t)
    \/ AssignMapDismiss(t)
    \/ AssignMapStartMonitor(t)
    \/ AssignMapAppend(t)
    \/ FinishMapCall(t)
    \/ FinishMapRejected(t)
    \/ FinishMapMain(t)
    \/ FinishMapCommit(t)
    \/ FinishMapCancelOtherAttempts(t)
    \/ FinishRetractJob(t)
    \/ FinishRetractKill(t)
    \/ FinishRetractSweep(t)
    \/ FinishDeleteRpcClient(t)

\* the RPC handler threads alone, racing each other on a map-only job
NextHandlers == \E t \in Threads : MapOnlyStep(t)

SpecHandlers == InitMapOnly /\ [][NextHandlers]_vars

\* one RPC handler thread, and Load after a restart of the master
NextRecovery ==
    \/ HandlerStep(1)
    \/ Load

SpecRecovery == Init /\ [][NextRecovery]_vars

\* crash and resume: a Running job with some maps Done is dumped and loaded
Resume ==
    /\ state_ = kRunning
    /\ Done(map_manager_) >= 1
    /\ Load

\* one RPC handler thread, and a crash of the master while the job runs
NextResume ==
    \/ HandlerStep(1)
    \/ Resume

SpecResume == Init /\ [][NextResume]_vars

\* a FinishReduce call that is answered with kSuspend
SuspendStep(t) ==
    \/ FinishReduceSuspend(t)
    \/ FinishReturnSuspend(t)

\* one RPC handler thread whose answers of kSuspend are steps
NextReports ==
    \/ HandlerStep(1)
    \/ SuspendStep(1)

SpecReports == Init /\ [][NextReports]_vars

\* Update calls, and dismissals whose answers are steps
UpdateStep(t) ==
    \/ Update(t)
    \/ UpdateReturn(t)
    \/ AssignMapDismissAnswer(t)
    \/ AssignReduceDismissAnswer(t)
    \/ AssignReturnAnswer(t)

\* one RPC handler thread of a job that is updated while it runs
NextUpdate ==
    \/ HandlerStep(1)
    \/ UpdateStep(1)

SpecUpdate == Init /\ [][NextUpdate]_vars

\* a job from its submission: Start, then one RPC handler thread
StartStep(t) ==
    \/ Start(t)
    \/ StartReturn(t)

NextStart ==
    \/ StartStep(1)
    \/ HandlerStep(1)

SpecStart == InitConstructed /\ [][NextStart]_vars

\* one RPC handler thread of a job whose tasks report several counters
InitCounters == \E desc \in Jobs : StartedReporting(desc, CounterReports)

NextCounters == HandlerStep(1)

SpecCounters == InitCounters /\ [][NextCounters]_vars

\* one RPC handler thread of a job with some retry bound and some budget
InitRetries == \E desc \in RetryJobs : Started(desc)

NextRetries == HandlerStep(1)

SpecRetries == InitRetries /\ [][NextRetries]_vars

\* the monitor, whose Query replies are steps
MonitorAnswerStep ==
    \/ \E map_now \in BOOLEAN, need_random_query \in BOOLEAN :
         MonitorStart(map_now, need_random_query)
    \/ \E young \in BOOLEAN : MonitorPop(young)
    \/ \E reply \in QueryReplies : MonitorReply(reply)
    \/ MonitorReplied
    \/ MonitorEnd

\* one RPC handler thread and the monitor thread
NextMonitor ==
    \/ HandlerStep(1)
    \/ MonitorAnswerStep

SpecMonitor == Init /\ [][NextMonitor]_vars

\* the same with a fair schedule: the handler thread gets the locks it waits
\* for (the monitor sleeps between its passes), workers keep calling
\* AssignMap and AssignReduce, and the monitor thread runs
FairMonitor ==
    /\ SF_vars(HandlerStep(1))
    /\ SF_vars(AssignMapCall(1))
    /\ SF_vars(AssignReduceCall(1))
    /\ WF_vars(MonitorAnswerStep)

\* a job with one map: the second handout is a second attempt of it
InitRequeue == \E desc \in Jobs : desc.map_total = 1 /\ Started(desc)

SpecRequeue == InitRequeue /\ [][NextMonitor]_vars /\ FairMonitor

\* jobs whose tasks take no time, TaskPeriod or MaxPeriod seconds
Periods == {0, TaskPeriod, MaxPeriod}

InitTimeout ==
    \E desc \in Jobs : StartedWith(desc, {ReportCounters}, Periods, ParallelAttempts)

SpecTimeout == InitTimeout /\ [][NextMonitor]_vars

\* a master that allows one parallel attempt more
InitStraggler ==
    \E desc \in Jobs :
        StartedWith(desc, {ReportCounters}, {TaskPeriod}, ParallelAttempts + 1)

SpecStraggler == InitStraggler /\ [][NextMonitor]_vars

\* a worker reports the attempt of ledger entry i Completed
ReportsCompleted(t, i) ==
    /\ i \in 1..Len(allocation_table_)
    /\ allocation_table_[i].is_map
    /\ FinishCall(t, TRUE, allocation_table_[i].resource_no,
                  allocation_table_[i].attempt, kTaskCompleted)

\* a handler thread serving workers whose attempts all succeed
CompletingStep(t) ==
    \/ AssignMapCall(t)
    \/ AssignSetRunning(t)
    \/ AssignMapGetItem(t)
    \/ AssignMapPushReplicas(t)
    \/ AssignMapFromSlug(t)
    \/ AssignMapDismiss(t)
    \/ AssignMapStartMonitor(t)
    \/ AssignMapAppend(t)
    \/ \E i \in 1..MaxAlloc : ReportsCompleted(t, i)
    \/ FinishMapMain(t)
    \/ FinishMapCommit(t)
    \/ FinishMapCancelOtherAttempts(t)
    \/ FinishRetractJob(t)
    \/ FinishRetractKill(t)
    \/ FinishRetractSweep(t)
    \/ FinishDeleteRpcClient(t)

NextCompleting == \E t \in Threads : CompletingStep(t)

\* every call a handler thread has begun runs to its end, the workers keep
\* polling AssignMap, and every attempt handed out is reported Completed
FairCompleting ==
    /\ \A t \in Threads : WF_vars(CompletingStep(t))
    /\ SF_vars(\E t \in Threads : AssignMapCall(t))
    /\ \A i \in 1..MaxAlloc : SF_vars(\E t \in Threads : ReportsCompleted(t, i))

SpecCompleting == InitMapOnly /\ [][NextCompleting]_vars /\ FairCompleting

(***************************************************************************)
(* Properties.                                                             *)
(***************************************************************************)
\* handler thread t takes the step
Stepped(t) == th'[t] # th[t]

\* the entries of task no that are Running
RunningOf(is_map, no) ==
    {i \in IndexEntries(is_map, no) : allocation_table_[i].state = kTaskRunning}

\* thread t runs the switch of FinishMap / FinishReduce in this step, on a
\* report that counts as Completed: a Completed report, or a Failed one of
\* an ignored id once its sort file, if it has one, is written
RunsCompleted(t) ==
    /\ Stepped(t)
    /\ \/ /\ th[t].pc = "f_main"
          /\ th[t].state = kTaskCompleted \/ FakeCompleted(t, th[t].is_map)
          /\ th'[t].pc # "f_write"
       \/ /\ th[t].pc = "f_write"
          /\ th'[t].state # kTaskFailed

\* C1: the first Completed report of a task id wins.  A Done id stays Done,
\* so one call at most makes it Done; a report that counts as Completed for
\* an id not yet Done makes it Done, raising the Done count by one, and stays
\* Completed; one for an id already Done becomes Canceled, leaves the
\* counters and the pools alone, and is written into the ledger as Canceled.
C1_FirstCompletedWins ==
    [][/\ \A no \in DOMAIN map_manager_ :
            IsDone(map_manager_, no) => IsDone(map_manager_', no)
       /\ \A no \in DOMAIN reduce_manager_ :
            IsDone(reduce_manager_, no) => IsDone(reduce_manager_', no)
       /\ \A t \in Threads :
            LET pool == Pool(th[t].is_map)
                after == IF th[t].is_map THEN map_manager_' ELSE reduce_manager_'
            IN  /\ (RunsCompleted(t) /\ ~IsDone(pool, th[t].no))
                    => /\ IsDone(after, th[t].no)
                       /\ Done(after) = Done(pool) + 1
                       /\ th'[t].state = kTaskCompleted
                       /\ ~th'[t].lost
                /\ (RunsCompleted(t) /\ IsDone(pool, th[t].no))
                    => /\ th'[t].state = kTaskCanceled
                       /\ th'[t].pc = "f_commit"
                       /\ counters_' = counters_
                       /\ UNCHANGED poolVars
                /\ (Stepped(t) /\ th[t].pc = "f_commit")
                    => allocation_table_'[th[t].cur].state = th[t].state
      ]_vars

\* two calls race for one id: the loser holds Canceled while the winner still
\* holds Completed
C1_Witness ==
    \E t, u \in Threads :
        /\ t # u
        /\ th[t].pc = "f_commit" /\ th[t].lost /\ th[t].state = kTaskCanceled
        /\ th[u].pc = "f_commit" /\ th[u].state = kTaskCompleted
        /\ th[u].no = th[t].no
        /\ th[u].attempt # th[t].attempt
        /\ IsDone(map_manager_, th[t].no)

\* C2: in every state the ledger holds at most one entry for each (phase, no,
\* attempt), and the attempts of one task in one phase are 1..n without a gap.
C2_AttemptsUniqueGapFree ==
    \A is_map \in BOOLEAN, no \in AllNos :
        LET entries == IndexEntries(is_map, no)
            attempts == {allocation_table_[i].attempt : i \in entries}
        IN  /\ \A i, j \in entries :
                  allocation_table_[i].attempt = allocation_table_[j].attempt
                      => i = j
            /\ attempts = 1..Cardinality(attempts)

\* C3: a ledger entry in a terminal state changes its state to Canceled only.
C3_TerminalOnlyToCanceled ==
    [][\A i \in 1..Len(allocation_table_) :
          (/\ allocation_table_[i].state \in TerminalTaskStates
           /\ allocation_table_'[i].state # allocation_table_[i].state)
              => allocation_table_'[i].state = kTaskCanceled
      ]_vars

\* C4: JobState changes only from Pending to Running, from Running to
\* Completed or Failed, and from a state that is not terminal to Killed.
C4_JobStateTransitions ==
    [][state_' # state_ =>
          \/ state_ = kPending /\ state_' = kRunning
          \/ state_ = kRunning /\ state_' \in {kCompleted, kFailed}
          \/ state_ \notin TerminalJobStates /\ state_' = kKilled
      ]_vars

\* C5: once JobState is Completed, Failed or Killed it never changes.
C5_TerminalJobStateStays ==
    [][(state_ \in TerminalJobStates) => state_' = state_]_vars

\* C6: once Kill has returned and no handler call is in progress, no ledger
\* entry is Running.
C6_NoRunningAfterKill ==
    (KillReturned /\ \A t \in Threads : th[t].pc = "idle")
        => \A i \in 1..Len(allocation_table_) :
              allocation_table_[i].state # kTaskRunning

\* C7: a call of Assign or Finish that began after Kill had returned changes
\* neither the ledger, the pools, the slugs, the counters nor JobState.
C7_NothingAfterKill ==
    [][\A t \in Threads :
          (th[t].after_kill /\ Stepped(t))
              => UNCHANGED <<state_, poolVars, ledgerVars, failVars, statVars,
                             counters_>>
      ]_vars

\* C8: in every state the Running entries of one task id are at most one when
\* the phase forbids duplicates, and at most parallel_attempts when it allows
\* them.
C8_RunningBound ==
    \A is_map \in BOOLEAN, no \in AllNos :
        Cardinality(RunningOf(is_map, no))
            <= IF AllowDuplicates(is_map) THEN ParallelAttempts ELSE 1

\* C9: in every state the ignore-failure set of the mappers has exactly
\* ignored_map_failures_ members, and that count is within the job's budget.
C9_IgnoredMapFailures ==
    /\ Cardinality(ignore_failure_mappers_) = ignored_map_failures_
    /\ ignored_map_failures_ <= job_descriptor_.ignore_map_failures

\* C10: failed_count_[no] never exceeds the number of nodes in
\* failed_nodes_[no], before and after every step, the reset at the end of
\* the map phase included; and a Failed report from a node already in
\* failed_nodes_[no] leaves failed_count_ as it is.
C10_FailedCountBound ==
    [][/\ \A no \in DOMAIN failed_count_ :
            failed_count_[no] <= Cardinality(failed_nodes_[no])
       /\ \A no \in DOMAIN failed_count_' :
            failed_count_'[no] <= Cardinality(failed_nodes_'[no])
       /\ \A t \in Threads :
            (/\ Stepped(t)
             /\ th[t].pc \in {"f_main", "f_write"}
             /\ th'[t].state = kTaskFailed
             /\ CurNode(allocation_table_[th[t].cur].endpoint)
                    \in failed_nodes_[th[t].no])
                => failed_count_' = failed_count_
      ]_vars

\* the one map of a job has failed twice on one node and counts one failure
C10_Witness ==
    /\ job_descriptor_.map_total = 1
    /\ Done(map_manager_) = 0
    /\ map_failed_ = 2
    /\ failed_count_[0] = 1
    /\ Cardinality(failed_nodes_[0]) = 1

\* thread t runs the switch on a report that counts as Completed and the
\* pool accepts it: FinishItem returns true
AcceptsCompleted(t) ==
    /\ RunsCompleted(t)
    /\ ~IsDone(Pool(th[t].is_map), th[t].no)

\* C11: the number of Done map ids never goes down and never exceeds the
\* number of maps; it goes up by exactly one in a step in which FinishMap
\* runs its Completed case with FinishItem accepting, and in no other step
\* (Failed, Killed and Canceled reports, Kill and the monitor leave it).
C11_CompletedMapsMonotone ==
    [][/\ Done(map_manager_') >= Done(map_manager_)
       /\ Done(map_manager_') <= job_descriptor_.map_total
       /\ \A t \in Threads :
             (AcceptsCompleted(t) /\ th[t].is_map)
                 => Done(map_manager_') = Done(map_manager_) + 1
       /\ (Done(map_manager_') # Done(map_manager_))
             => /\ Done(map_manager_') = Done(map_manager_) + 1
                /\ \E t \in Threads : AcceptsCompleted(t) /\ th[t].is_map
      ]_vars

\* a map id is Done while a Failed and a Killed map attempt have been counted
C11_Witness ==
    /\ Done(map_manager_) >= 1
    /\ map_failed_ >= 1
    /\ map_killed_ >= 1

\* C12: a Completed job has every map id Done and, with a reduce phase,
\* every reduce id Done; state_ becomes kCompleted only in the Finish call
\* that made the last id of the last phase Done (for a map-only job the
\* FinishMap that made the last map id Done); a map-only job never has a
\* reduce Deployer.
C12_CompletedMeansAllDone ==
    [][/\ (state_' = kCompleted)
            => /\ Done(map_manager_') = job_descriptor_.map_total
               /\ (job_descriptor_.job_type = kMapReduceJob)
                     => Done(reduce_manager_') = job_descriptor_.reduce_total
       /\ (state_' = kCompleted /\ state_ # kCompleted)
            => \E t \in Threads :
                 /\ Stepped(t)
                 /\ th[t].pc \in {"f_retract", "f_retract_sweep"}
                 /\ th[t].end_state = kCompleted
                 /\ th[t].state = kTaskCompleted
                 /\ th[t].is_map = (job_descriptor_.job_type = kMapOnlyJob)
                 /\ IsDone(Pool(th[t].is_map), th[t].no)
                 /\ Done(Pool(th[t].is_map)) = SumOfItem(Pool(th[t].is_map))
       /\ (job_descriptor_.job_type = kMapOnlyJob)
            => (~reduce_' /\ ~reduce_workers_')
      ]_vars

\* a map-reduce job has completed
C12_Witness ==
    /\ state_ = kCompleted
    /\ job_descriptor_.job_type = kMapReduceJob
    /\ Done(reduce_manager_) = job_descriptor_.reduce_total

\* thread t begins a FinishReduce call in this step
BeginsFinishReduce(t) ==
    /\ th[t].pc = "idle"
    /\ th'[t].pc \in {"f_main", "f_suspend"}
    /\ ~th'[t].is_map

\* C13: a FinishReduce call is answered with kSuspend exactly when maps are
\* left and the report is not Killed; from its begin to its return the call
\* changes neither the pools, the ledger, the counters, the failure counts,
\* the statistics nor state_.  Once every map is Done no report is answered
\* with kSuspend: one that names a Running entry goes into the switch.
C13_EarlyReduceSuspended ==
    [][\A t \in Threads :
         /\ BeginsFinishReduce(t)
              => ((th'[t].pc = "f_suspend")
                    <=> (Done(map_manager_) < job_descriptor_.map_total
                         /\ th'[t].state # kTaskKilled))
         /\ (Stepped(t) /\ (th[t].pc = "f_suspend" \/ th'[t].pc = "f_suspend"))
              => UNCHANGED <<state_, poolVars, ledgerVars, failVars, statVars,
                             counters_>>
         /\ (Stepped(t) /\ th[t].pc = "f_suspend") => th'[t].pc = "idle"
      ]_vars

\* a Completed report for a reduce attempt that is Running is being answered
\* with kSuspend, a map being left
C13_Witness ==
    \E t \in Threads :
        /\ th[t].pc = "f_suspend"
        /\ th[t].state = kTaskCompleted
        /\ Done(map_manager_) < job_descriptor_.map_total
        /\ RunningCount(allocation_table_, FALSE) > 0

\* Load makes a tracker from the dump of a tracker at rest: no handler call
\* is in flight
LoadsAtRest ==
    /\ loads' # loads
    /\ \A t \in Threads : th[t].pc = "idle"

\* C14: the tracker loaded from the dump of a tracker at rest has the same
\* pools (status, attempt and allocated count of every id), ledger, state_,
\* failed and killed statistics and counters.
C14_LoadRoundTrip ==
    [][LoadsAtRest
         => UNCHANGED <<poolVars, allocation_table_, state_, statVars, counters_>>
      ]_vars

\* the sum of the counter "records" in a run that was not interrupted: every
\* accepted completion carries one record, so one per Done id
UninterruptedRecords == Done(map_manager_) + Done(reduce_manager_)

\* C15: a job that was dumped and loaded while Running with some maps Done
\* and then reaches kCompleted has the counter sums of the uninterrupted run.
C15_ResumeKeepsCounters ==
    (loads > 0 /\ state_ = kCompleted)
        => counters_.sum["records"] = UninterruptedRecords
\* thread t is about to run an event of the given kinds
AtEvent(t, kinds) == IF lk[t] = <<>> THEN FALSE ELSE Head(lk[t])[1] \in kinds

\* the locks thread t holds
Held(t) == {m \in {"mu_", "alloc_mu_"} : t \in Holder(m)}

\* C16: no thread ever holds alloc_mu_ and mu_ at the same time; a thread that
\* is about to take one of the two locks holds neither, so no thread waits for
\* one lock while it keeps the other and the two locks cannot deadlock
C16_LocksNeverNested ==
    \A t \in LockThreads :
        /\ Cardinality(Held(t)) <= 1
        /\ AtEvent(t, {"lock"}) => Held(t) = {}

\* a handler is inside CanMapDismiss under mu_, having given up alloc_mu_,
\* while the monitor holds alloc_mu_
C16_Witness ==
    \E t \in Threads :
        /\ lk[t] = <<Unlock("mu_"), Lock("alloc_mu_"), Unlock("alloc_mu_")>>
        /\ Held(t) = {"mu_"}
        /\ alloc_mu_ = {MonitorThread}

\* C17: whenever a thread is about to issue an RPC (CancelTask, Query, Deployer
\* create/update) or a DFS call (Remove, sort file Open/Close), it holds neither
\* alloc_mu_ nor mu_
C17_CallsOutsideLocks ==
    \A t \in LockThreads : AtEvent(t, {"rpc", "dfs"}) => Held(t) = {}

\* the KeepMonitoring instances of the job: the tasks waiting in monitor_ and
\* the pass that is running
MonitorInstances ==
    Queued(TRUE) + Queued(FALSE) + (IF MonitorIdle THEN 0 ELSE 1)

\* C18: at any time at most one KeepMonitoring instance is scheduled or
\* running for the job
C18_SingleMonitor == MonitorInstances <= 1

\* ceil(n * percent / 100.0), as the least integer not below the quotient
CeilPercent(n, percent) ==
    CHOOSE k \in 0..(n * percent) :
        100 * k >= n * percent /\ 100 * (k - 1) < n * percent

\* capacity - ceil(max(notDone, 5) * leftPercent / 100)
DismissBudget(capacity, not_done) ==
    capacity - CeilPercent(IF not_done > DismissFloor THEN not_done ELSE DismissFloor,
                           LeftPercent)

\* thread t answers an AssignMap / AssignReduce that has nothing to hand out
AnswersDismiss(t) == th[t].pc = "a_dismiss" /\ th'[t].pc \in {kNoMore, kSuspend}

\* C19: when AssignMap has nothing to hand out it answers Suspend if
\* map_capacity <= notDone; otherwise Suspend, with the dismissed set left
\* alone, when the set already has dismissBudget members or more, and else
\* NoMore with the endpoint recorded.  AssignReduce does the same with the
\* reduce totals, capacity and set.
C19_DismissWithinBudget ==
    [][\A t \in Threads :
          AnswersDismiss(t) =>
             LET is_map == th[t].is_map
                 total == IF is_map THEN job_descriptor_.map_total
                          ELSE job_descriptor_.reduce_total
                 capacity == IF is_map THEN job_descriptor_.map_capacity
                             ELSE job_descriptor_.reduce_capacity
                 not_done == total - Done(Pool(is_map))
                 dismissed == IF is_map THEN map_dismissed_ ELSE reduce_dismissed_
                 dismissed_after == IF is_map THEN map_dismissed_' ELSE reduce_dismissed_'
                 other == IF is_map THEN reduce_dismissed_ ELSE map_dismissed_
                 other_after == IF is_map THEN reduce_dismissed_' ELSE map_dismissed_'
             IN  /\ other_after = other
                 /\ IF \/ capacity <= not_done
                       \/ Cardinality(dismissed) >= DismissBudget(capacity, not_done)
                    THEN th'[t].pc = kSuspend /\ dismissed_after = dismissed
                    ELSE /\ th'[t].pc = kNoMore
                         /\ \E endpoint \in Endpoints :
                               dismissed_after = dismissed \cup {endpoint}]_vars

\* an AssignMap is answered Suspend with the capacity above notDone because
\* the dismissed set is exactly at the budget
C19_Witness ==
    \E t \in Threads :
        /\ th[t].pc = kSuspend
        /\ th[t].is_map
        /\ job_descriptor_.map_capacity
              > job_descriptor_.map_total - Done(map_manager_)
        /\ map_dismissed_ # {}
        /\ Cardinality(map_dismissed_)
              = DismissBudget(job_descriptor_.map_capacity,
                              job_descriptor_.map_total - Done(map_manager_))

\* C20: Update returns GalaxyError exactly when an active Deployer rejects the
\* update, and then priority, map_capacity and reduce_capacity of the
\* descriptor are as they were before the call
C20_UpdateAllOrNothing ==
    [][\A t \in Threads, priority \in UpdatePriorities,
          map_capacity \in UpdateCapacities, reduce_capacity \in UpdateCapacities,
          map_ok \in BOOLEAN, reduce_ok \in BOOLEAN :
          UpdateCall(t, priority, map_capacity, reduce_capacity, map_ok, reduce_ok)
          => /\ (th'[t].pc = kGalaxyError)
                   <=> ((map_ /\ ~map_ok) \/ (reduce_ /\ ~reduce_ok))
             /\ (th'[t].pc = kGalaxyError)
                   => /\ job_descriptor_'.priority = job_descriptor_.priority
                      /\ job_descriptor_'.map_capacity = job_descriptor_.map_capacity
                      /\ job_descriptor_'.reduce_capacity
                            = job_descriptor_.reduce_capacity]_vars

\* thread t runs Start on an input that is cut into no item
StartsEmpty(t) ==
    \E map_ok \in BOOLEAN : StartCall(t, FALSE, 0, map_ok)

\* C21: Start on inputs that are cut into zero map items returns
\* kOpenFileFail, leaves state_ kFailed and creates no Deployer
C21_EmptyInputOpenFileFail ==
    [][\A t \in Threads :
          StartsEmpty(t) =>
             /\ th'[t].pc = kOpenFileFail
             /\ state_' = kFailed
             /\ ~map_' /\ ~reduce_']_vars

\* the number of counter names is above max_counters_per_job
CapExceeded == Cardinality(counters_.names) > MaxCountersPerJob

\* counters_ after the step holds the names and the values of counters on top
\* of what it held before
Summed(counters) ==
    /\ counters_'.names = counters_.names \cup counters.names
    /\ \A k \in CounterNames :
          counters_'.sum[k] =
             counters_.sum[k] + (IF k \in counters.names THEN counters.sum[k] ELSE 0)

\* C22: counters_ changes only in a step that accepts a Completed report (the
\* step in which the task id becomes Done), and while the cap is not exceeded
\* such a step adds the values the report carries to the sums; reports that
\* are reclassified Canceled, Failed, Killed or rejected leave counters_ alone
C22_CountersSumAccepted ==
    [][/\ (counters_' # counters_) => \E t \in Threads : AcceptsCompleted(t)
       /\ \A t \in Threads :
             (AcceptsCompleted(t) /\ ~CapExceeded)
                 => \E counters \in reports_ : Summed(counters)]_vars

\* a report of one record and a report of two counters have been summed
C22_Witness ==
    /\ counters_.names = {"records", "bytes"}
    /\ counters_.sum["records"] = 3
    /\ counters_.sum["bytes"] = 2
    /\ Done(map_manager_) + Done(reduce_manager_) = 2

\* C23: once the number of counter names exceeds max_counters_per_job, a step
\* that accepts a Completed report adds no name to counters_ and
\* AccumulateCounters returns false, while the task id becomes Done all the same
C23_NoNamesBeyondCap ==
    [][\A t \in Threads :
          (AcceptsCompleted(t) /\ CapExceeded)
              => /\ counters_'.names = counters_.names
                 /\ ~AccumulateCountersResult(counters_)
                 /\ IsDone(IF th[t].is_map THEN map_manager_' ELSE reduce_manager_',
                           allocation_table_[th[t].cur].resource_no)]_vars

\* two ids are Done and only the first report, which brought two names, has
\* been counted
C23_Witness ==
    /\ CapExceeded
    /\ Done(map_manager_) + Done(reduce_manager_) = 2
    /\ counters_ = Counters({"records", "bytes"}, 2)

\* the attempts that the counters of failed and killed attempts count
CountedAttempts == map_failed_ + map_killed_ + reduce_failed_ + reduce_killed_

\* C24: only a report for a Running ledger entry gets past the lookup, so for
\* each attempt at most one report takes effect, even when two reports for
\* one attempt are in flight together: while the job runs, the attempts
\* counted as failed or killed are no more than the attempts handed out
C24_OneReportPerAttempt ==
    state_ = kRunning => CountedAttempts <= Len(allocation_table_)

\* the ledger entries of the task that thread t reports, other than the
\* attempt it reports
OtherAttempts(t) ==
    {i \in IndexEntries(th[t].is_map, th[t].no) :
        allocation_table_[i].attempt # th[t].attempt}

\* thread t ends FinishMap / FinishReduce with CancelOtherAttempts in this
\* step: its Completed report was accepted and duplicates are allowed
CancelsOthers(t) == Stepped(t) /\ th[t].pc = "f_cancel"

\* C25: when a Completed report for (no, a) was accepted and duplicates are
\* allowed, the call's last write to the ledger, CancelOtherAttempts, leaves
\* every other entry of no that was Running Canceled (each one is sent
\* CancelTask in the same iteration), and the entry of (no, a) Completed
C25_LosersCanceled ==
    [][\A t \in Threads :
          CancelsOthers(t) =>
             /\ \A i \in OtherAttempts(t) :
                   allocation_table_[i].state = kTaskRunning
                      => allocation_table_'[i].state = kTaskCanceled
             /\ allocation_table_'[th[t].cur].state = kTaskCompleted]_vars

\* thread t runs the Failed case of the switch in this step
RunsFailed(t) ==
    /\ Stepped(t)
    /\ th[t].pc \in {"f_main", "f_write"}
    /\ th'[t].state = kTaskFailed

\* failed_count_[no] >= the retry bound of the phase, after the step
RetryUsedUp(is_map, no) ==
    /\ no \in DOMAIN failed_count_'
    /\ failed_count_'[no] >= (IF is_map THEN job_descriptor_.map_retry
                              ELSE job_descriptor_.reduce_retry)

\* the ignore-failure budget of the phase has room, before the step
BudgetLeft(is_map) ==
    IF is_map THEN ignored_map_failures_ < job_descriptor_.ignore_map_failures
    ELSE ignored_reduce_failures_ < job_descriptor_.ignore_reduce_failures

\* C26: a Failed report returns the task id to the pool.  It retracts the
\* job as Failed only if failed_count_[no] has then reached the retry bound
\* and the ignore-failure budget is used up; if the bound is reached and
\* budget remains, no joins the ignore-failure set, the ignored counter goes
\* up by one and the job state stays as it is, with no retraction
C26_FailedEscalation ==
    [][\A t \in Threads :
          RunsFailed(t) =>
             LET is_map == th[t].is_map
                 no == allocation_table_[th[t].cur].resource_no
             IN  /\ IF is_map
                    THEN map_manager_' = ReturnBackItem(map_manager_, no)
                    ELSE reduce_manager_' = ReturnBackItem(reduce_manager_, no)
                 /\ th'[t].pc = "f_retract"
                      => /\ th'[t].end_state = kFailed
                         /\ RetryUsedUp(is_map, no)
                         /\ ~BudgetLeft(is_map)
                 /\ (RetryUsedUp(is_map, no) /\ BudgetLeft(is_map))
                      => /\ th'[t].pc = "f_commit"
                         /\ state_' = state_
                         /\ IF is_map
                            THEN /\ no \in ignore_failure_mappers_'
                                 /\ ignored_map_failures_' = ignored_map_failures_ + 1
                            ELSE /\ no \in ignore_failure_reducers_'
                                 /\ ignored_reduce_failures_' =
                                        ignored_reduce_failures_ + 1]_vars

\* a Failed report from a second host has used up the retries of its task
\* with no budget left: the job is being retracted as Failed, the task is
\* Pending again
C26_Witness ==
    \E t \in Threads :
        /\ th[t].pc = "f_retract"
        /\ th[t].state = kTaskFailed
        /\ th[t].end_state = kFailed
        /\ failed_count_[th[t].no] = MaxRetry
        /\ ~IsAllocated(Pool(th[t].is_map), th[t].no)
        /\ ~IsDone(Pool(th[t].is_map), th[t].no)

\* thread t runs the switch in this step on a Failed report of a map id in
\* the ignore-failure set: straight away when there is no sort file to write,
\* or after the sort file was written
FakeCompletes(t) ==
    /\ Stepped(t)
    /\ th[t].is_map
    /\ \/ /\ th[t].pc = "f_main"
          /\ th[t].state = kTaskFailed
          /\ th[t].no \in ignore_failure_mappers_
          /\ th'[t].pc # "f_write"
       \/ /\ th[t].pc = "f_write"
          /\ th'[t].state # kTaskFailed

\* thread t runs the switch in this step and puts its map id into the
\* ignore-failure set
JoinsIgnoreSet(t) ==
    /\ Stepped(t)
    /\ th[t].is_map
    /\ th[t].pc \in {"f_main", "f_write"}
    /\ th[t].no \notin ignore_failure_mappers_
    /\ th[t].no \in ignore_failure_mappers_'

RaisesToReduceBegin(t) ==
    /\ AcceptsCompleted(t)
    /\ th[t].is_map
    /\ job_descriptor_.job_type = kMapReduceJob
    /\ Done(map_manager_') =
          job_descriptor_.map_total
             - (job_descriptor_.map_total * ReplicaBeginPercent) \div 100

\* thread t comes back from master_->RetractJob in this step
Retracted(t) ==
    /\ Stepped(t)
    /\ th[t].pc \in {"f_retract", "f_retract_sweep"}
    /\ th'[t].pc = "f_commit"

\* C28: in a map-reduce job the reduce Deployer is created by the FinishMap
\* that raises the number of Done maps to reduce_begin_ = map_total -
\* map_total * replica_begin_percent / 100, which finds none created before,
\* and by no other step; if the Deployer does not start, the job is
\* retracted as Failed and state_ becomes kFailed
C28_ReduceDeployerOnce ==
    [][/\ \A t \in Threads :
            /\ RaisesToReduceBegin(t)
                  => /\ ~reduce_
                     /\ reduce_'
                     /\ ~reduce_workers_'
                           => /\ th'[t].pc = "f_retract"
                              /\ th'[t].end_state = kFailed
            /\ (Retracted(t) /\ th[t].end_state = kFailed) => state_' = kFailed
       /\ (~reduce_ /\ reduce_') => \E t \in Threads : RaisesToReduceBegin(t)
      ]_vars

\* the reduce Deployer of a map-reduce job with two maps exists, created by
\* the first completed map and started, and the other map is not Done yet
C28_Witness ==
    /\ job_descriptor_.job_type = kMapReduceJob
    /\ job_descriptor_.map_total = MapTotal
    /\ Done(map_manager_) = MapTotal - (MapTotal * ReplicaBeginPercent) \div 100
    /\ Done(map_manager_) < MapTotal
    /\ reduce_
    /\ reduce_workers_
    /\ state_ = kRunning

\* the monitor thread takes the step
MonitorStepped == mon' # mon

\* the ledger entries that become Killed in the step
NewlyKilled ==
    {i \in 1..Len(allocation_table_) :
        /\ allocation_table_[i].state # kTaskKilled
        /\ allocation_table_'[i].state = kTaskKilled}

\* C30: the monitor marks an attempt Killed only when acting on the reply to
\* a Query of that attempt that failed or carried other ids (which includes
\* the reply after which the id is found no longer Allocated); when the
\* worker confirms job, task and attempt, the ledger is left as it is and
\* the entry is set aside, and the end of the pass puts every entry set
\* aside back into the time heap
C30_KillOnlyAfterQuery ==
    [][MonitorStepped =>
          /\ \A i \in NewlyKilled :
                /\ mon.pc \in {"other", "error"}
                /\ i = mon.top
          /\ mon.pc = "confirmed"
                => /\ allocation_table_' = allocation_table_
                   /\ mon.top \in mon'.returned_item
                   /\ mon'.pc = "scan"
          /\ (mon.pc = "scan" /\ mon'.pc = "idle")
                => mon.returned_item \subseteq time_heap_']_vars

\* in a job without duplicates, where every Running entry of the phase is
\* queried, a worker has confirmed its attempt: the entry is set aside, still
\* Running, and nothing was killed
C30_Witness ==
    /\ mon.pc = "scan"
    /\ ~AllowDuplicates(mon.map_now)
    /\ map_killed_ = 0 /\ reduce_killed_ = 0
    /\ \E i \in mon.returned_item :
          /\ allocation_table_[i].is_map = mon.map_now
          /\ allocation_table_[i].state = kTaskRunning

\* the monitor is about to mark entry i Killed: the Query of its Running
\* attempt failed or returned other ids, and its id is still Allocated
KillsRunning(i) ==
    IF mon.pc \in {"other", "error"} /\ mon.top = i
    THEN /\ allocation_table_[i].state = kTaskRunning
         /\ IsAllocated(Pool(mon.map_now), allocation_table_[i].resource_no)
    ELSE FALSE

\* ... and the ledger has room for another handout after entry i
KillsForRequeue(i) ==
    KillsRunning(i) /\ Len(allocation_table_) = i /\ i < MaxAlloc

\* a later entry of the ledger is an attempt of the task of entry i, with
\* another attempt number
Reissued(i) ==
    \E j \in (i + 1)..Len(allocation_table_) :
        /\ allocation_table_[j].is_map = allocation_table_[i].is_map
        /\ allocation_table_[j].resource_no = allocation_table_[i].resource_no
        /\ allocation_table_[j].attempt
              \notin {allocation_table_[k].attempt : k \in IndexEntries(
                         allocation_table_[i].is_map,
                         allocation_table_[i].resource_no) \ {j}}

\* ... or the task of entry i is Done
ReissuedOrDone(i) ==
    IF i \in 1..Len(allocation_table_)
    THEN \/ Reissued(i)
         \/ IsDone(Pool(allocation_table_[i].is_map),
                   allocation_table_[i].resource_no)
    ELSE FALSE

\* the monitor, acting on a failed or mismatched Query, marks the entry
\* Killed, returns its id to the pool and pushes the id into the slug
KillRequeues ==
    \A i \in 1..Len(allocation_table_) :
        (MonitorStepped /\ KillsRunning(i))
           => LET is_map == mon.map_now
                  no == allocation_table_[i].resource_no
              IN  /\ allocation_table_'[i].state = kTaskKilled
                  /\ IF is_map
                     THEN /\ map_manager_' = ReturnBackItem(map_manager_, no)
                          /\ map_slug_' = Append(map_slug_, no)
                     ELSE /\ reduce_manager_' = ReturnBackItem(reduce_manager_, no)
                          /\ reduce_slug_' = Append(reduce_slug_, no)

PassesStraggler ==
    /\ MonitorStepped
    /\ mon.pc = "scan"
    /\ mon'.pc = "scan"
    /\ time_heap_ # {}
    /\ time_heap_' = time_heap_ \ {HeapTop}
    /\ allocation_table_[HeapTop].state = kTaskRunning
    /\ allocation_table_[HeapTop].is_map = mon.map_now
    /\ allocation_table_[HeapTop].attempt >= parallel_attempts_ - 1

\* C31: a still-Running attempt numbered parallel_attempts - 1 or more is set
\* aside for the heap and its id is not pushed into the slug, unless the slug
\* is longer than the index, in which case the id is pushed anyway
C31_StragglerSetAside ==
    [][PassesStraggler =>
          LET is_map == mon.map_now
              no == allocation_table_[HeapTop].resource_no
              slug == IF is_map THEN map_slug_' ELSE reduce_slug_'
          IN  /\ HeapTop \in mon'.returned_item
              /\ IF Len(Slug(is_map)) > IndexSize(is_map)
                 THEN slug = Append(Slug(is_map), no)
                 ELSE slug = Slug(is_map)]_vars

\* C32: whenever a monitor pass goes on to scan the time heap, timeout is
\* greater than 0 and sleep_time, the smaller of time_tolerance and timeout,
\* is greater than 0 and at most timeout
C32_PositiveTimeout ==
    mon.pc # "idle" =>
        /\ mon.timeout > 0
        /\ mon.sleep_time > 0
        /\ mon.sleep_time <= mon.timeout
        /\ mon.sleep_time \in {TimeTolerance, mon.timeout}

\* map id no has an entry in the ledger
HandedOut(no) ==
    \E i \in 1..Len(allocation_table_) :
        allocation_table_[i].is_map /\ allocation_table_[i].resource_no = no

\* C33: in a map-only job whose workers keep polling AssignMap and whose
\* attempts are all reported Completed, every map id is eventually handed
\* out, and the job eventually becomes Completed and stays Completed
C33_MapOnlyLiveness ==
    /\ <>(\A no \in 0..(job_descriptor_.map_total - 1) : HandedOut(no))
    /\ <>[](state_ = kCompleted)

\* a Finish call for task no of the phase is between its lookup and its return
FinishInProgress(is_map, no) ==
    \E t \in Threads :
        /\ th[t].pc \notin {"idle", "start", "a_run", "a_get", "a_push", "a_slug",
                            "a_dismiss", "a_monitor", "a_append"}
        /\ th[t].is_map = is_map
        /\ th[t].no = no

\* the ledger entries of task no of the phase that are Completed
CompletedOf(is_map, no) ==
    {i \in 1..Len(allocation_table_) :
        /\ allocation_table_[i].is_map = is_map
        /\ allocation_table_[i].resource_no = no
        /\ allocation_table_[i].state = kTaskCompleted}

\* C34: a task id that is Done in the pool while no Finish call for it is in
\* progress has exactly one Completed ledger entry, so the replay of the
\* ledger has the Done set of the pool
C34_OneCompletedPerDone ==
    \A is_map \in BOOLEAN :
        /\ \A no \in DOMAIN Pool(is_map) :
              (IsDone(Pool(is_map), no) /\ ~FinishInProgress(is_map, no))
                 => Cardinality(CompletedOf(is_map, no)) = 1
        /\ (\A no \in DOMAIN Pool(is_map) : ~FinishInProgress(is_map, no))
              => LET replayed == Replay(allocation_table_, SumOfItem(Pool(is_map)), is_map)
                 IN  \A no \in DOMAIN Pool(is_map) :
                        IsDone(replayed, no) <=> IsDone(Pool(is_map), no)

\* no Assign or Finish call and no monitor pass is in progress, Kill has not
\* been called, and the job has not ended (a job that fails kills itself)
AtRest ==
    /\ \A t \in Threads : th[t].pc = "idle"
    /\ mon.pc = "idle"
    /\ kills = 0 /\ killer = "idle"
    /\ state_ \in {kPending, kRunning}

\* the Running ledger entries of task no of the phase
RunningEntries(is_map, no) ==
    {i \in 1..Len(allocation_table_) :
        /\ allocation_table_[i].is_map = is_map
        /\ allocation_table_[i].resource_no = no
        /\ allocation_table_[i].state = kTaskRunning}

\* C35: at rest, in a job that has not been killed, every task id that is
\* not Done has as many active handouts in the pool as Running ledger
\* entries, and is Pending exactly when it has no Running entry
C35_PoolMatchesLedger ==
    AtRest =>
        \A is_map \in BOOLEAN : \A no \in DOMAIN Pool(is_map) :
            ~IsDone(Pool(is_map), no)
               => /\ Pool(is_map)[no].allocated
                        = Cardinality(RunningEntries(is_map, no))
                  /\ (Pool(is_map)[no].status = kResPending)
                        <=> (RunningEntries(is_map, no) = {})

\* C36: outside a monitor pass, and with no handler call in progress, every
\* Running ledger entry of a phase whose monitor is queued is in the time heap
C36_RunningInHeap ==
    (mon.pc = "idle" /\ \A t \in Threads : th[t].pc = "idle") =>
        \A i \in 1..Len(allocation_table_) :
            (/\ allocation_table_[i].state = kTaskRunning
             /\ Queued(allocation_table_[i].is_map) > 0)
               => i \in time_heap_

\* thread t runs the Failed case for a Running attempt of a task id that is
\* already Done in the pool, an attempt no other call is finishing
LoserFails(t) ==
    /\ RunsFailed(t)
    /\ allocation_table_[th[t].cur].state = kTaskRunning
    /\ IsDone(Pool(th[t].is_map), th[t].no)
    /\ \A u \in Threads \ {t} : th[u].pc = "idle" \/ th[u].cur # th[t].cur

\* C37: a Failed report for a Running attempt of a task id that is already
\* Done neither increases failed_count_[no], nor adds no to an ignore-failure
\* set, nor retracts the job as Failed
C37_LoserFailureIgnored ==
    [][\A t \in Threads :
          LoserFails(t) =>
             /\ failed_count_' = failed_count_
             /\ ignore_failure_mappers_' = ignore_failure_mappers_
             /\ ignore_failure_reducers_' = ignore_failure_reducers_
             /\ th'[t].pc # "f_retract"
             /\ state_' # kFailed]_vars

\* the map phase of a map-reduce job has ended: failed_count_ has been
\* resized to the number of reduce ids
MapPhaseEnded ==
    /\ job_descriptor_.job_type = kMapReduceJob
    /\ Done(map_manager_) = SumOfItem(map_manager_)

\* C38: the Failed case indexes failed_count_ with a task id smaller than
\* its size, and the Failed report of a map attempt after the end of the map
\* phase changes neither failed_count_ nor failed_nodes_ of any reduce id
C38_FailedCountInBounds ==
    [][\A t \in Threads :
          RunsFailed(t) =>
             /\ th[t].no \in DOMAIN failed_count_
             /\ (th[t].is_map /\ MapPhaseEnded)
                   => \A no \in DOMAIN reduce_manager_ :
                         /\ failed_count_'[no] = failed_count_[no]
                         /\ failed_nodes_'[no] = failed_nodes_[no]]_vars

\* the step makes the last map id of a map-reduce job Done, and does not go
\* on to retract the job
LastMapDone ==
    /\ job_descriptor_.job_type = kMapReduceJob
    /\ Done(map_manager_) < SumOfItem(map_manager_)
    /\ Done(map_manager_') = SumOfItem(map_manager_')
    /\ state_' = kRunning
    /\ \A t \in Threads : th'[t].pc # "f_retract"

\* C39: when the last map id of a map-reduce job that is neither Failed nor
\* Killed becomes Done, the reduce Deployer exists, also in a tracker that
\* Load has resumed
C39_ReduceDeployerByPhaseEnd == [][LastMapDone => reduce_']_vars

\* C40: while a map id is not Done, the endpoints that AssignMap has answered
\* NoMore are fewer than map_capacity; the same for reduce
C40_DismissedBelowCapacity ==
    /\ Done(map_manager_) < SumOfItem(map_manager_)
          => Cardinality(map_dismissed_) < job_descriptor_.map_capacity
    /\ Done(reduce_manager_) < SumOfItem(reduce_manager_)
          => Cardinality(reduce_dismissed_) < job_descriptor_.reduce_capacity
====
